---- MODULE Spec2Model ----
(***************************************************************************)
(* Model of simulacat's simulator process supervisor                       *)
(* (simulacat/orchestration.py): the startup handshake of                  *)
(* start_sim_process / _wait_for_port with its stdout reader thread, and   *)
(* the terminate -> kill escalation of stop_sim_process.                   *)
(*                                                                         *)
(* Time is counted in tenths of a second.                                  *)
(***************************************************************************)
EXTENDS Integers, Sequences, FiniteSets, TLC

VARIABLES
    now,           \* time.time(), relative to the start of the call
    deadline,      \* _wait_for_port: deadline = time.time() + startup_timeout
    config_file,   \* github-sim-config.json has been written under tmpdir
    written,       \* lines the child process has written to its stdout pipe
    stdoutClosed,  \* the child's end of the stdout pipe is closed (EOF)
    procState,     \* child process: "none" (not spawned) / "running" / "exited"
    returncode,    \* <<>> while the child has no exit status, else <<status>>
    signals,       \* signals delivered to the running child
    rdPos,         \* number of lines the reader thread has read from the pipe
    reader,        \* reader thread: "unstarted" / "running" / "finished"
    line_queue,    \* queue.Queue: <<line>> items, <<>> is the None sentinel
    output_lines,  \* _wait_for_port's output_lines
    pulledLate,    \* some output line was pulled when the deadline had passed
    cleanup_msg,   \* message argument of _cleanup_failed_process (<<>> is None)
    joined,        \* reader.join(timeout=0.1) of the finally clause has run
    pending,       \* outcome travelling through the finally clause
    proclog,       \* calls made on the Popen handle during the current call
    pc,            \* position of the controller (the calling thread)
    stop_arg,      \* stop_sim_process: the timeout keyword as passed (<<>> if omitted)
    timeout,       \* stop_sim_process: the timeout parameter
    calls,         \* number of stop_sim_process calls made on the handle
    result,        \* outcome of the call once it has completed
    f_pc,          \* github_simulator fixture: position of the generator
    f_cfg,         \* github_simulator: the github_sim_config it was given
    f_proc,        \* github_simulator: local proc (<<>> is None)
    f_token,       \* github_simulator: local auth_token (<<>> is None)
    f_started,     \* processes start_sim_process has returned to the fixture
    f_exc,         \* exception leaving the fixture or the test body ("" if none)
    f_test,        \* the test body: "none" / "running" / "passed" / "failed"
    token_values,  \* _select_auth_token_value: the token_values argument
    default_token, \* _select_auth_token_value: default_token (<<>> is None)
    selected,      \* _select_auth_token_value: its outcome
    scenario,      \* a ScenarioConfig: its collections and default_token
    indexes,       \* ScenarioConfig._indexes (<<>> is None)
    s_call,        \* the last method called on the scenario
    s_out,         \* what that call returned or raised
    fragments,     \* merge_scenarios: the scenarios it was given, in order
    m_out          \* merge_scenarios: what it returned or raised

vars == <<now, deadline, config_file, written, stdoutClosed, procState, returncode,
          signals, rdPos, reader, line_queue, output_lines, pulledLate, cleanup_msg,
          joined, pending, proclog, pc, stop_arg, timeout, calls, result,
          f_pc, f_cfg, f_proc, f_token, f_started, f_exc, f_test,
          token_values, default_token, selected, scenario, indexes, s_call, s_out,
          fragments, m_out>>

procVars == <<procState, returncode, signals>>
streamVars == <<written, stdoutClosed>>
readerVars == <<rdPos, reader, line_queue>>
stopVars == <<stop_arg, timeout, calls>>
fixtureVars == <<f_pc, f_cfg, f_proc, f_token, f_started, f_exc, f_test>>

tokenVars == <<token_values, default_token, selected>>

\* The scenario resolution engine (simulacat/scenario_config.py).
scenarioVars == <<scenario, indexes, s_call, s_out>>

\* The scenario composer (simulacat/scenario_factories.py).
mergeVars == <<fragments, m_out>>

engineVars == <<tokenVars, scenarioVars, mergeVars>>

\* State of the other components of the package, which the process
\* supervisor never touches.
extVars == <<fixtureVars, engineVars>>

supervisorVars == <<now, deadline, config_file, written, stdoutClosed, procState,
                    returncode, signals, rdPos, reader, line_queue, output_lines,
                    pulledLate, cleanup_msg, joined, pending, proclog, pc, stop_arg,
                    timeout, calls, result>>

\* No github_simulator fixture in use.
FixtureIdle ==
    /\ f_pc = "unused"
    /\ f_cfg = [kind |-> "mapping", token |-> <<>>, ok |-> TRUE]
    /\ f_proc = <<>>
    /\ f_token = <<>>
    /\ f_started = 0
    /\ f_exc = ""
    /\ f_test = "none"

\* No call of _select_auth_token_value under way.
TokenIdle ==
    /\ token_values = <<>>
    /\ default_token = <<>>
    /\ selected = [kind |-> "none"]

\* No scenario under validation.
ScenarioIdle ==
    /\ scenario = <<>>
    /\ indexes = <<>>
    /\ s_call = [op |-> "none", include_unsupported |-> FALSE]
    /\ s_out = [kind |-> "none"]

\* No merge under way.
MergeIdle ==
    /\ fragments = <<>>
    /\ m_out = [kind |-> "none"]

\* The scenario resolution engine at rest.
EngineIdle == TokenIdle /\ ScenarioIdle /\ MergeIdle

\* The components outside the process supervisor, at rest.
ExtIdle == FixtureIdle /\ EngineIdle

handshakeVars == <<now, deadline, config_file, written, stdoutClosed, rdPos, reader,
                   line_queue, output_lines, pulledLate, cleanup_msg, joined, pending>>

-----------------------------------------------------------------------------
(* Bounds of the model *)

\* Largest startup_timeout tried (tenths of a second).
MaxTimeout == 1

\* Most lines the child process writes during one handshake.
MaxLines == 2

\* Most consecutive stop_sim_process calls on one handle.
MaxStopCalls == 2

-----------------------------------------------------------------------------
(* Program constants, in tenths of a second *)

DEFAULT_STOP_TIMEOUT_SECONDS == 50

KILL_WAIT_TIMEOUT_SECONDS == 10

\* timeout of proc.wait in _drain_process_output
DRAIN_WAIT_TIMEOUT == 10

\* default timeout of _stop_process
STOP_PROCESS_TIMEOUT == 10

-----------------------------------------------------------------------------
(* JSON values and Python's int()                                          *)

\* A JSON value as json.loads returns it.  t is the Python type; n carries an
\* int (or a float scaled by ten), s the characters of a str.
IntV(n)    == [t |-> "int",    n |-> n, s |-> <<>>]
FloatV(n)  == [t |-> "float",  n |-> n, s |-> <<>>]
StrV(s)    == [t |-> "str",    n |-> 0, s |-> s]
BoolV(b)   == [t |-> "bool",   n |-> IF b THEN 1 ELSE 0, s |-> <<>>]
NullV      == [t |-> "null",   n |-> 0, s |-> <<>>]
InfV       == [t |-> "inf",    n |-> 0, s |-> <<>>]
NanV       == [t |-> "nan",    n |-> 0, s |-> <<>>]
ListV      == [t |-> "list",   n |-> 0, s |-> <<>>]
AbsentV    == [t |-> "absent", n |-> 0, s |-> <<>>]

Digits == {"0", "1", "2", "3", "4", "5", "6", "7", "8", "9"}

DigitVal(c) ==
    CASE c = "0" -> 0 [] c = "1" -> 1 [] c = "2" -> 2 [] c = "3" -> 3
      [] c = "4" -> 4 [] c = "5" -> 5 [] c = "6" -> 6 [] c = "7" -> 7
      [] c = "8" -> 8 [] c = "9" -> 9

RECURSIVE StripLeft(_)
StripLeft(s) ==
    IF s # <<>> /\ Head(s) = " " THEN StripLeft(Tail(s)) ELSE s

RECURSIVE StripRight(_)
StripRight(s) ==
    IF s # <<>> /\ s[Len(s)] = " "
    THEN StripRight(SubSeq(s, 1, Len(s) - 1))
    ELSE s

IsDigits(s) == s # <<>> /\ \A i \in 1..Len(s) : s[i] \in Digits

RECURSIVE DigitsValue(_)
DigitsValue(s) ==
    IF s = <<>> THEN 0
    ELSE 10 * DigitsValue(SubSeq(s, 1, Len(s) - 1)) + DigitVal(s[Len(s)])

Ok(n)     == [ok |-> TRUE,  n |-> n, exc |-> "none"]
Raises(e) == [ok |-> FALSE, n |-> 0, exc |-> e]

\* int(str): surrounding whitespace is stripped, an optional sign is read,
\* and the rest must be decimal digits.
int_of_str(s) ==
    LET body == StripRight(StripLeft(s))
        signed == body # <<>> /\ Head(body) \in {"-", "+"}
        digits == IF signed THEN Tail(body) ELSE body
    IN  IF ~IsDigits(digits) THEN Raises("ValueError")
        ELSE IF signed /\ Head(body) = "-" THEN Ok(0 - DigitsValue(digits))
        ELSE Ok(DigitsValue(digits))

\* int(x) for a value x read from JSON: ints pass through, bools are ints,
\* floats are truncated toward zero, str is parsed; Infinity overflows,
\* NaN is a ValueError, None / list are TypeErrors.
py_int(v) ==
    CASE v.t = "int"   -> Ok(v.n)
      [] v.t = "bool"  -> Ok(v.n)
      [] v.t = "float" -> Ok(IF v.n >= 0 THEN v.n \div 10 ELSE 0 - ((0 - v.n) \div 10))
      [] v.t = "str"   -> int_of_str(v.s)
      [] v.t = "inf"   -> Raises("OverflowError")
      [] v.t = "nan"   -> Raises("ValueError")
      [] OTHER         -> Raises("TypeError")

\* evt["port"] followed by int(...): a missing key is a KeyError.
port_of_event(evt) ==
    IF evt.port.t = "absent" THEN Raises("KeyError") ELSE py_int(evt.port)

-----------------------------------------------------------------------------
(* Output lines of the child process                                       *)

\* A line of output: valid says whether it parses as JSON, obj whether the
\* parsed value is an object; event / port / message are the object's keys
\* (event "" and message <<>> stand for a missing key).
ObjLine(event, port, msg) ==
    [valid |-> TRUE, obj |-> TRUE, event |-> event, port |-> port, message |-> msg]

GarbageLine == [valid |-> FALSE, obj |-> FALSE, event |-> "", port |-> AbsentV, message |-> <<>>]
ScalarLine  == [valid |-> TRUE,  obj |-> FALSE, event |-> "", port |-> AbsentV, message |-> <<>>]

\* Ports the child reports during a handshake: an int, a str of digits, a
\* str that is no number, Infinity, and no port at all.
PortValues ==
    { IntV(4242), StrV(<<"8", "0", "8", "0">>), StrV(<<"a", "b", "c">>), InfV, AbsentV }

ListeningLines == { ObjLine("listening", p, <<>>) : p \in PortValues }

ErrorLines == { ObjLine("error", AbsentV, <<"boom">>) }

IrrelevantLines == { GarbageLine, ScalarLine, ObjLine("ready", IntV(8080), <<"boom">>) }

Lines == ListeningLines \cup ErrorLines \cup IrrelevantLines

-----------------------------------------------------------------------------
(* Pure helpers of the handshake                                           *)

\* _parse_event: the decoded object, or None (<<>>) when the line is not
\* JSON or the decoded value is not a dict.
parse_event(line) ==
    IF line.valid /\ line.obj THEN <<line>> ELSE <<>>

\* _line_status; item is what _read_stdout_line returned: <<>> for None,
\* <<line>> for a line.  A str line is never "" here: the reader thread's
\* iter(stdout.readline, "") stops at "", so only the None branch and "ok"
\* are reached.
line_status(item, polled) ==
    IF item = <<>>
    THEN IF polled # <<>> THEN "break" ELSE "continue"
    ELSE "ok"

\* proc.poll(): None (<<>>) while the child runs, else its exit status.
poll == IF procState = "exited" THEN returncode ELSE <<>>

NoResult == [kind |-> "none", port |-> 0, exc |-> "", msg |-> <<>>]
Returned(p) == [kind |-> "return", port |-> p, exc |-> "", msg |-> <<>>]
Raised(e, m) == [kind |-> "raise", port |-> 0, exc |-> e, msg |-> m]

\* The three message shapes of GitHubSimProcessError raised by the handshake.
InvalidListeningMsg(evt) ==
    [head |-> "Invalid listening event from simulator: ", text |-> <<>>,
     evt |-> <<evt>>, exit_code |-> <<>>, output |-> <<>>]

SimulatorErrorMsg(evt) ==
    [head |-> "Simulator error: ",
     text |-> IF evt.message = <<>> THEN <<"Unknown error">> ELSE evt.message,
     evt |-> <<>>, exit_code |-> <<>>, output |-> <<>>]

\* A message for want of a port that leaves the consumed lines out.
NoPortMsg_without_output(code, lines) ==
    [head |-> "Simulator did not report a listening port.", text |-> <<>>,
     evt |-> <<>>, exit_code |-> code, output |-> <<>>]

NoPortMsg(code, lines) ==
    [head |-> "Simulator did not report a listening port.", text |-> <<>>,
     evt |-> <<>>, exit_code |-> code, output |-> lines]

\* process_stdout_line with the `return` of the listening branch lost: a
\* well-formed listening event falls through and yields None.
process_stdout_line_noreturn(line) ==
    LET evt == parse_event(line)
    IN  IF evt # <<>> /\ evt[1].event = "error"
        THEN [do |-> "cleanup", port |-> 0, exc |-> "",
              msg |-> <<SimulatorErrorMsg(evt[1])>>]
        ELSE [do |-> "none", port |-> 0, exc |-> "", msg |-> <<>>]

\* process_stdout_line of a controller that takes every record other than a
\* listening event for a failure report.
process_stdout_line_unknown_fails(line) ==
    LET evt == parse_event(line)
        p == IF evt = <<>> THEN Raises("") ELSE port_of_event(evt[1])
    IN  IF evt = <<>> THEN [do |-> "none", port |-> 0, exc |-> "", msg |-> <<>>]
        ELSE IF evt[1].event = "listening"
        THEN IF p.ok THEN [do |-> "port", port |-> p.n, exc |-> "", msg |-> <<>>]
             ELSE IF p.exc \in {"KeyError", "TypeError", "ValueError"}
             THEN [do |-> "cleanup", port |-> 0, exc |-> "",
                   msg |-> <<InvalidListeningMsg(evt[1])>>]
             ELSE [do |-> "raise", port |-> 0, exc |-> p.exc, msg |-> <<>>]
        ELSE [do |-> "cleanup", port |-> 0, exc |-> "",
              msg |-> <<SimulatorErrorMsg(evt[1])>>]

\* _process_stdout_line after output_lines.append(line): what the line makes
\* the controller do.  "none" is `return None`, "port" is `return int(...)`,
\* "cleanup" is the call of _cleanup_failed_process with a message, "raise"
\* is an exception of int() that the except clause does not list.
process_stdout_line(line) ==
    LET evt == parse_event(line)
        p == IF evt = <<>> THEN Raises("") ELSE port_of_event(evt[1])
    IN  IF evt = <<>> THEN [do |-> "none", port |-> 0, exc |-> "", msg |-> <<>>]
        ELSE IF evt[1].event = "listening"
        THEN IF p.ok THEN [do |-> "port", port |-> p.n, exc |-> "", msg |-> <<>>]
             ELSE IF p.exc \in {"KeyError", "TypeError", "ValueError"}
             THEN [do |-> "cleanup", port |-> 0, exc |-> "",
                   msg |-> <<InvalidListeningMsg(evt[1])>>]
             ELSE [do |-> "raise", port |-> 0, exc |-> p.exc, msg |-> <<>>]
        ELSE IF evt[1].event = "error"
        THEN [do |-> "cleanup", port |-> 0, exc |-> "",
              msg |-> <<SimulatorErrorMsg(evt[1])>>]
        ELSE [do |-> "none", port |-> 0, exc |-> "", msg |-> <<>>]

\* A call made on the Popen handle by the cleanup of a failed start: its name
\* and its timeout argument (0 when it takes none).
LogCall(op, t) == [op |-> op, timeout |-> t]

\* A call made on the Popen handle by stop_sim_process, with how it ended.
LogOutcome(op, t, outcome) == [op |-> op, timeout |-> t, outcome |-> outcome]

-----------------------------------------------------------------------------
(* The child process and the clock                                         *)

StartupTimeouts == 0..MaxTimeout

\* Exit statuses of a child that exits by itself.
ExitStatuses == {1}

\* The child writes one more line to its stdout.  Lines written after the
\* controller has left its loop are never pulled, so they are left out.
ProcWrite(l) ==
    /\ pc \in {"loop", "get"}
    /\ procState = "running"
    /\ ~stdoutClosed
    /\ Len(written) < MaxLines
    /\ written' = Append(written, l)
    /\ UNCHANGED <<now, deadline, config_file, stdoutClosed, procVars, readerVars,
                   output_lines, pulledLate, cleanup_msg, joined, pending, proclog,
                   pc, stopVars, result>>
    /\ UNCHANGED extVars

\* The child closes its stdout without exiting.
ProcCloseStdout ==
    /\ pc \in {"loop", "get"}
    /\ procState = "running"
    /\ ~stdoutClosed
    /\ stdoutClosed' = TRUE
    /\ UNCHANGED <<now, deadline, config_file, written, procVars, readerVars,
                   output_lines, pulledLate, cleanup_msg, joined, pending, proclog,
                   pc, stopVars, result>>
    /\ UNCHANGED extVars

\* The child exits by itself with status rc.
ProcExit(rc) ==
    /\ pc # "done"
    /\ procState = "running"
    /\ procState' = "exited"
    /\ returncode' = <<rc>>
    /\ signals' = {}
    /\ stdoutClosed' = TRUE
    /\ UNCHANGED <<now, deadline, config_file, written, readerVars, output_lines,
                   pulledLate, cleanup_msg, joined, pending, proclog, pc, stopVars, result>>
    /\ UNCHANGED extVars

\* The child dies of a delivered signal: status -15 for SIGTERM, -9 for SIGKILL.
ProcDieOnSignal(sig) ==
    /\ pc # "done"
    /\ procState = "running"
    /\ sig \in signals
    /\ procState' = "exited"
    /\ returncode' = <<IF sig = "KILL" THEN 0 - 9 ELSE 0 - 15>>
    /\ signals' = {}
    /\ stdoutClosed' = TRUE
    /\ UNCHANGED <<now, deadline, config_file, written, readerVars, output_lines,
                   pulledLate, cleanup_msg, joined, pending, proclog, pc, stopVars, result>>
    /\ UNCHANGED extVars

\* Time passes.  The clock is only read by the loop of _wait_for_port, and
\* only compared with the deadline, so it is advanced up to the deadline.
Tick ==
    /\ pc \in {"loop", "get"}
    /\ now < deadline
    /\ now' = now + 1
    /\ UNCHANGED <<deadline, config_file, streamVars, procVars, readerVars,
                   output_lines, pulledLate, cleanup_msg, joined, pending, proclog,
                   pc, stopVars, result>>
    /\ UNCHANGED extVars

-----------------------------------------------------------------------------
(* The reader thread of _start_stdout_reader                               *)

\* The lines of the pipe from position i on.
RECURSIVE Unread(_, _)
Unread(w, i) ==
    IF i >= Len(w) THEN <<>> ELSE <<(<<w[i + 1]>>)>> \o Unread(w, i + 1)

\* reader_put on a last-in-first-out queue.
reader_put_lifo ==
    /\ reader = "running"
    /\ pc \in {"loop", "get"}
    /\ rdPos < Len(written)
    /\ line_queue' = <<(<<written[rdPos + 1]>>)>> \o line_queue
    /\ rdPos' = rdPos + 1
    /\ UNCHANGED <<now, deadline, config_file, streamVars, procVars, reader,
                   output_lines, pulledLate, cleanup_msg, joined, pending, proclog,
                   pc, stopVars, result>>
    /\ UNCHANGED extVars

\* for line in iter(stdout.readline, ""): line_queue.put(line)
reader_put ==
    /\ reader = "running"
    /\ pc \in {"loop", "get"}
    /\ rdPos < Len(written)
    /\ line_queue' = Append(line_queue, <<written[rdPos + 1]>>)
    /\ rdPos' = rdPos + 1
    /\ UNCHANGED <<now, deadline, config_file, streamVars, procVars, reader,
                   output_lines, pulledLate, cleanup_msg, joined, pending, proclog,
                   pc, stopVars, result>>
    /\ UNCHANGED extVars

\* readline returned "" (end of stream): line_queue.put(None), thread ends.
\* Once the controller has left its loop nobody pulls from the queue any
\* more, and the reads up to the end of the stream are taken in one step.
reader_eof ==
    /\ reader = "running"
    /\ pc # "done"
    /\ stdoutClosed
    /\ rdPos = Len(written) \/ pc \notin {"loop", "get"}
    /\ line_queue' = line_queue \o Unread(written, rdPos) \o <<(<<>>)>>
    /\ rdPos' = Len(written)
    /\ reader' = "finished"
    /\ UNCHANGED <<now, deadline, config_file, streamVars, procVars,
                   output_lines, pulledLate, cleanup_msg, joined, pending, proclog,
                   pc, stopVars, result>>
    /\ UNCHANGED extVars

-----------------------------------------------------------------------------
(* start_sim_process and _wait_for_port (the controller)                   *)

Cleanup == [kind |-> "cleanup", port |-> 0, exc |-> "", msg |-> <<>>]

PlainMsg(head) ==
    [head |-> head, text |-> <<>>, evt |-> <<>>, exit_code |-> <<>>, output |-> <<>>]

ProcessError(m) == Raised("GitHubSimProcessError", <<m>>)

\* start_sim_process of a _write_config that opens the configuration file
\* before it serializes: a failed json.dumps leaves an empty file behind.
start_sim_process_open_first(entry_ok, serializable, write_ok, bun_found, spawn_ok, t) ==
    /\ pc = "idle"
    /\ IF ~entry_ok
       THEN /\ result' = ProcessError(PlainMsg("Simulator entry point not found: "))
            /\ pc' = "done"
            /\ UNCHANGED <<config_file, procState, deadline, reader>>
       ELSE IF ~serializable
       THEN /\ result' = ProcessError(
                   PlainMsg("Failed to serialize simulator configuration to JSON"))
            /\ pc' = "done"
            /\ config_file' = TRUE
            /\ UNCHANGED <<procState, deadline, reader>>
       ELSE IF ~write_ok
       THEN /\ result' = ProcessError(PlainMsg("Failed to start simulator"))
            /\ pc' = "done"
            /\ UNCHANGED <<config_file, procState, deadline, reader>>
       ELSE IF ~bun_found
       THEN /\ result' = ProcessError(PlainMsg("Bun executable not found: "))
            /\ pc' = "done"
            /\ config_file' = TRUE
            /\ UNCHANGED <<procState, deadline, reader>>
       ELSE IF ~spawn_ok
       THEN /\ result' = ProcessError(PlainMsg("Failed to start simulator"))
            /\ pc' = "done"
            /\ config_file' = TRUE
            /\ UNCHANGED <<procState, deadline, reader>>
       ELSE /\ config_file' = TRUE
            /\ procState' = "running"
            /\ deadline' = now + t
            /\ reader' = "running"
            /\ pc' = "loop"
            /\ UNCHANGED result
    /\ UNCHANGED <<now, streamVars, returncode, signals, rdPos, line_queue,
                   output_lines, pulledLate, cleanup_msg, joined, pending, proclog,
                   stopVars>>
    /\ UNCHANGED extVars

\* start_sim_process up to the call of _wait_for_port.  The inputs say
\* whether the entry point is a file, json.dumps accepts the configuration,
\* write_text succeeds, the executable is found and Popen succeeds; t is
\* startup_timeout.  On success the child runs, the deadline is set and the
\* reader thread is started.
start_sim_process(entry_ok, serializable, write_ok, bun_found, spawn_ok, t) ==
    /\ pc = "idle"
    /\ IF ~entry_ok
       THEN /\ result' = ProcessError(PlainMsg("Simulator entry point not found: "))
            /\ pc' = "done"
            /\ UNCHANGED <<config_file, procState, deadline, reader>>
       ELSE IF ~serializable
       THEN /\ result' = ProcessError(
                   PlainMsg("Failed to serialize simulator configuration to JSON"))
            /\ pc' = "done"
            /\ UNCHANGED <<config_file, procState, deadline, reader>>
       ELSE IF ~write_ok
       THEN /\ result' = ProcessError(PlainMsg("Failed to start simulator"))
            /\ pc' = "done"
            /\ UNCHANGED <<config_file, procState, deadline, reader>>
       ELSE IF ~bun_found
       THEN /\ result' = ProcessError(PlainMsg("Bun executable not found: "))
            /\ pc' = "done"
            /\ config_file' = TRUE
            /\ UNCHANGED <<procState, deadline, reader>>
       ELSE IF ~spawn_ok
       THEN /\ result' = ProcessError(PlainMsg("Failed to start simulator"))
            /\ pc' = "done"
            /\ config_file' = TRUE
            /\ UNCHANGED <<procState, deadline, reader>>
       ELSE /\ config_file' = TRUE
            /\ procState' = "running"
            /\ deadline' = now + t
            /\ reader' = "running"
            /\ pc' = "loop"
            /\ UNCHANGED result
    /\ UNCHANGED <<now, streamVars, returncode, signals, rdPos, line_queue,
                   output_lines, pulledLate, cleanup_msg, joined, pending, proclog,
                   stopVars>>
    /\ UNCHANGED extVars

\* while time.time() < deadline: ... ; leaving the loop enters the finally
\* clause with _cleanup_failed_process still to run.
loop_check ==
    /\ pc = "loop"
    /\ IF now < deadline
       THEN pc' = "get" /\ UNCHANGED pending
       ELSE pc' = "join" /\ pending' = Cleanup
    /\ UNCHANGED <<now, deadline, config_file, streamVars, procVars, readerVars,
                   output_lines, pulledLate, cleanup_msg, joined, proclog, stopVars, result>>
    /\ UNCHANGED extVars

\* read_and_process with a pull that has no timeout: queue.get() blocks
\* until the reader thread has put an item.
read_and_process_blocking ==
    /\ pc = "get"
    /\ line_queue # <<>>
    /\ LET item == IF line_queue # <<>> THEN Head(line_queue) ELSE <<>>
           status == line_status(item, poll)
           r == process_stdout_line(item[1])
       IN  /\ line_queue' = IF line_queue # <<>> THEN Tail(line_queue) ELSE line_queue
           /\ IF status = "continue"
              THEN /\ pc' = "loop"
                   /\ UNCHANGED <<output_lines, pulledLate, cleanup_msg, pending>>
              ELSE IF status = "break"
              THEN /\ pc' = "join"
                   /\ pending' = Cleanup
                   /\ UNCHANGED <<output_lines, pulledLate, cleanup_msg>>
              ELSE /\ output_lines' = Append(output_lines, item[1])
                   /\ pulledLate' = (pulledLate \/ now >= deadline)
                   /\ CASE r.do = "none" ->
                             pc' = "loop" /\ UNCHANGED <<cleanup_msg, pending>>
                        [] r.do = "port" ->
                             /\ pc' = "join"
                             /\ pending' = Returned(r.port)
                             /\ UNCHANGED cleanup_msg
                        [] r.do = "cleanup" ->
                             /\ pc' = "drain"
                             /\ cleanup_msg' = r.msg
                             /\ UNCHANGED pending
                        [] r.do = "raise" ->
                             /\ pc' = "join"
                             /\ pending' = Raised(r.exc, <<>>)
                             /\ UNCHANGED cleanup_msg
    /\ UNCHANGED <<now, deadline, config_file, streamVars, procVars, rdPos, reader,
                   joined, proclog, stopVars, result>>
    /\ UNCHANGED extVars

\* One pass through the loop body: _read_stdout_line (queue.get bounded by
\* the time remaining: it yields the head of the queue, or None once the
\* deadline has passed with the queue empty), _line_status and
\* _process_stdout_line.
read_and_process ==
    /\ pc = "get"
    /\ line_queue # <<>> \/ now >= deadline
    /\ LET item == IF line_queue # <<>> THEN Head(line_queue) ELSE <<>>
           status == line_status(item, poll)
           r == process_stdout_line(item[1])
       IN  /\ line_queue' = IF line_queue # <<>> THEN Tail(line_queue) ELSE line_queue
           /\ IF status = "continue"
              THEN /\ pc' = "loop"
                   /\ UNCHANGED <<output_lines, pulledLate, cleanup_msg, pending>>
              ELSE IF status = "break"
              THEN /\ pc' = "join"
                   /\ pending' = Cleanup
                   /\ UNCHANGED <<output_lines, pulledLate, cleanup_msg>>
              ELSE /\ output_lines' = Append(output_lines, item[1])
                   /\ pulledLate' = (pulledLate \/ now >= deadline)
                   /\ CASE r.do = "none" ->
                             pc' = "loop" /\ UNCHANGED <<cleanup_msg, pending>>
                        [] r.do = "port" ->
                             /\ pc' = "join"
                             /\ pending' = Returned(r.port)
                             /\ UNCHANGED cleanup_msg
                        [] r.do = "cleanup" ->
                             /\ pc' = "drain"
                             /\ cleanup_msg' = r.msg
                             /\ UNCHANGED pending
                        [] r.do = "raise" ->
                             /\ pc' = "join"
                             /\ pending' = Raised(r.exc, <<>>)
                             /\ UNCHANGED cleanup_msg
    /\ UNCHANGED <<now, deadline, config_file, streamVars, procVars, rdPos, reader,
                   joined, proclog, stopVars, result>>
    /\ UNCHANGED extVars

\* finally: reader.join(timeout=0.1).  The join is bounded, so it returns
\* whether or not the reader thread has finished.  Afterwards the pending
\* return or exception leaves _wait_for_port, or the cleanup of line 170 runs.
reader_join ==
    /\ pc = "join"
    /\ joined' = TRUE
    /\ IF pending.kind = "cleanup"
       THEN pc' = "drain" /\ UNCHANGED result
       ELSE pc' = "done" /\ result' = pending
    /\ UNCHANGED <<now, deadline, config_file, streamVars, procVars, readerVars,
                   output_lines, pulledLate, cleanup_msg, pending, proclog, stopVars>>
    /\ UNCHANGED extVars

\* What proc.terminate() / proc.kill() can do: on a running child the signal
\* is delivered ("ok") or os.kill fails ("OSError"); on a child that has
\* exited Popen.send_signal does nothing.
SignalOutcomes == IF procState = "running" THEN {"ok", "OSError"} ELSE {"ok"}

\* What proc.wait(timeout=...) does: it returns once the child has exited
\* and raises TimeoutExpired when the child is still running at the end of
\* the wait.
WaitOutcome == IF procState = "exited" THEN "ok" ELSE "TimeoutExpired"

Deliver(sig, outcome) ==
    signals' = IF procState = "running" /\ outcome = "ok"
               THEN signals \cup {sig} ELSE signals

\* Exceptions the statements of _drain_process_output and _stop_process
\* suppress.
DrainWaitSuppressed == {"TimeoutExpired"}
StopProcessSignalSuppressed == {"OSError"}
StopProcessWaitSuppressed == {"TimeoutExpired", "OSError"}

\* An exception that no handler of the cleanup catches leaves
\* _wait_for_port through the finally clause.
Escapes(exc) ==
    IF joined
    THEN pc' = "done" /\ result' = Raised(exc, <<>>) /\ UNCHANGED pending
    ELSE pc' = "join" /\ pending' = Raised(exc, <<>>) /\ UNCHANGED result

\* drain_and_terminate of a cleanup that drains but never calls _stop_process's
\* terminate.
drain_without_terminate ==
    /\ pc = "drain"
    /\ proclog' = Append(proclog, LogCall("wait", DRAIN_WAIT_TIMEOUT))
    /\ pc' = "wait"
    /\ UNCHANGED <<now, deadline, config_file, streamVars, readerVars, output_lines,
                   pulledLate, cleanup_msg, joined, pending, result, procVars, stopVars>>
    /\ UNCHANGED extVars

\* _drain_process_output (proc.wait(timeout=1), TimeoutExpired suppressed),
\* then the first statement of _stop_process: proc.terminate() with OSError
\* suppressed.
drain_and_terminate ==
    /\ pc = "drain"
    /\ \E outcome \in SignalOutcomes :
          IF WaitOutcome # "ok" /\ WaitOutcome \notin DrainWaitSuppressed
          THEN /\ proclog' = Append(proclog, LogCall("wait", DRAIN_WAIT_TIMEOUT))
               /\ Escapes(WaitOutcome)
               /\ UNCHANGED signals
          ELSE /\ proclog' = proclog \o <<LogCall("wait", DRAIN_WAIT_TIMEOUT),
                                          LogCall("terminate", 0)>>
               /\ Deliver("TERM", outcome)
               /\ IF outcome = "ok" \/ outcome \in StopProcessSignalSuppressed
                  THEN pc' = "wait" /\ UNCHANGED <<pending, result>>
                  ELSE Escapes(outcome)
    /\ UNCHANGED <<now, deadline, config_file, streamVars, readerVars, output_lines,
                   pulledLate, cleanup_msg, joined, procState, returncode, stopVars>>
    /\ UNCHANGED extVars

\* stop_process_wait without the escalation to kill.
stop_process_wait_nokill ==
    /\ pc = "wait"
    /\ proclog' = Append(proclog, LogCall("wait", STOP_PROCESS_TIMEOUT))
    /\ pc' = "raise"
    /\ UNCHANGED <<now, deadline, config_file, streamVars, readerVars, output_lines,
                   pulledLate, cleanup_msg, joined, pending, result, procVars, stopVars>>
    /\ UNCHANGED extVars

\* _stop_process: proc.wait(timeout=timeout), then `if proc.poll() is None`:
\* proc.kill() with OSError suppressed.
stop_process_wait ==
    /\ pc = "wait"
    /\ \E outcome \in SignalOutcomes :
          IF WaitOutcome # "ok" /\ WaitOutcome \notin StopProcessWaitSuppressed
          THEN /\ proclog' = Append(proclog, LogCall("wait", STOP_PROCESS_TIMEOUT))
               /\ Escapes(WaitOutcome)
               /\ UNCHANGED signals
          ELSE IF poll = <<>>
          THEN /\ proclog' = proclog \o <<LogCall("wait", STOP_PROCESS_TIMEOUT),
                                          LogCall("kill", 0)>>
               /\ Deliver("KILL", outcome)
               /\ IF outcome = "ok" \/ outcome \in StopProcessSignalSuppressed
                  THEN pc' = "kill_wait" /\ UNCHANGED <<pending, result>>
                  ELSE Escapes(outcome)
          ELSE /\ proclog' = Append(proclog, LogCall("wait", STOP_PROCESS_TIMEOUT))
               /\ pc' = "raise"
               /\ UNCHANGED <<signals, pending, result>>
    /\ UNCHANGED <<now, deadline, config_file, streamVars, readerVars, output_lines,
                   pulledLate, cleanup_msg, joined, procState, returncode, stopVars>>
    /\ UNCHANGED extVars

\* _stop_process: the bounded wait that follows the kill.
stop_process_kill_wait ==
    /\ pc = "kill_wait"
    /\ proclog' = Append(proclog, LogCall("wait", STOP_PROCESS_TIMEOUT))
    /\ IF WaitOutcome = "ok" \/ WaitOutcome \in StopProcessWaitSuppressed
       THEN pc' = "raise" /\ UNCHANGED <<pending, result>>
       ELSE Escapes(WaitOutcome)
    /\ UNCHANGED <<now, deadline, config_file, streamVars, readerVars, output_lines,
                   pulledLate, cleanup_msg, joined, procVars, stopVars>>
    /\ UNCHANGED extVars

\* _cleanup_failed_process: raise GitHubSimProcessError(message or default).
\* Raised inside the try block it still passes through the finally clause.
cleanup_raise ==
    /\ pc = "raise"
    /\ LET m == IF cleanup_msg # <<>> THEN cleanup_msg[1]
                ELSE NoPortMsg(poll, output_lines)
       IN  IF joined
           THEN pc' = "done" /\ result' = ProcessError(m) /\ UNCHANGED pending
           ELSE pc' = "join" /\ pending' = ProcessError(m) /\ UNCHANGED result
    /\ UNCHANGED <<now, deadline, config_file, streamVars, procVars, readerVars,
                   output_lines, pulledLate, cleanup_msg, joined, proclog, stopVars>>
    /\ UNCHANGED extVars

-----------------------------------------------------------------------------
(* The handshake as a whole                                                *)

Init ==
    /\ now = 0
    /\ deadline = 0
    /\ config_file = FALSE
    /\ written = <<>>
    /\ stdoutClosed = FALSE
    /\ procState = "none"
    /\ returncode = <<>>
    /\ signals = {}
    /\ rdPos = 0
    /\ reader = "unstarted"
    /\ line_queue = <<>>
    /\ output_lines = <<>>
    /\ pulledLate = FALSE
    /\ cleanup_msg = <<>>
    /\ joined = FALSE
    /\ pending = NoResult
    /\ proclog = <<>>
    /\ pc = "idle"
    /\ stop_arg = <<>>
    /\ timeout = 0
    /\ calls = 0
    /\ result = NoResult
    /\ ExtIdle

Next ==
    \/ \E eo, se, wo, bf, so \in BOOLEAN, t \in StartupTimeouts :
           start_sim_process(eo, se, wo, bf, so, t)
    \/ loop_check
    \/ read_and_process
    \/ reader_join
    \/ drain_and_terminate
    \/ stop_process_wait
    \/ stop_process_kill_wait
    \/ cleanup_raise
    \/ reader_put
    \/ reader_eof
    \/ \E l \in Lines : ProcWrite(l)
    \/ ProcCloseStdout
    \/ \E rc \in ExitStatuses : ProcExit(rc)
    \/ \E sig \in {"TERM", "KILL"} : ProcDieOnSignal(sig)
    \/ Tick

Spec == Init /\ [][Next]_vars

\* The handshake of a child that writes only lines of three kinds, with the
\* scheduling the controller can count on: time passes, and the controller
\* thread takes its next step whenever it can (each of its blocking calls,
\* queue.get, join and wait, is given a timeout).  Nothing is assumed of the
\* child or of the reader thread.
LiveLines ==
    { GarbageLine, ObjLine("listening", IntV(4242), <<>>),
      ObjLine("error", AbsentV, <<"boom">>) }

Controller ==
    \/ loop_check
    \/ read_and_process
    \/ reader_join
    \/ drain_and_terminate
    \/ stop_process_wait
    \/ stop_process_kill_wait
    \/ cleanup_raise

NextLive ==
    \/ \E eo, se, wo, bf, so \in BOOLEAN, t \in StartupTimeouts :
           start_sim_process(eo, se, wo, bf, so, t)
    \/ Controller
    \/ reader_put
    \/ reader_eof
    \/ \E l \in LiveLines : ProcWrite(l)
    \/ ProcCloseStdout
    \/ \E rc \in ExitStatuses : ProcExit(rc)
    \/ \E sig \in {"TERM", "KILL"} : ProcDieOnSignal(sig)
    \/ Tick

SpecLive == Init /\ [][NextLive]_vars /\ WF_vars(Tick) /\ WF_vars(Controller)

-----------------------------------------------------------------------------
(* stop_sim_process                                                        *)

\* Timeouts passed to stop_sim_process (tenths of a second); <<>> stands for
\* a call that leaves the keyword out.
StopTimeouts == {0, 5, KILL_WAIT_TIMEOUT_SECONDS, 11, DEFAULT_STOP_TIMEOUT_SECONDS, 36000}

StopArgs == {<<>>} \cup { <<t>> : t \in StopTimeouts }

Min(a, b) == IF a <= b THEN a ELSE b

ReturnedNone == [kind |-> "return", port |-> 0, exc |-> "", msg |-> <<>>]

\* A kill whose OSError is not suppressed.
KillUnsuppressed == {}

\* Exceptions each statement of stop_sim_process handles.
TerminateHandled == {"OSError"}
WaitHandled == {"TimeoutExpired"}
KillSuppressed == {"OSError"}
KillWaitSuppressed == {"TimeoutExpired", "OSError"}

\* stop_sim_process without the `proc.poll() is not None` early return.
stop_sim_process_nopoll(arg) ==
    /\ pc \in {"s_idle", "s_done"}
    /\ calls < MaxStopCalls
    /\ calls' = calls + 1
    /\ stop_arg' = arg
    /\ timeout' = IF arg = <<>> THEN DEFAULT_STOP_TIMEOUT_SECONDS ELSE arg[1]
    /\ proclog' = <<>>
    /\ pc' = "s_terminate"
    /\ result' = NoResult
    /\ UNCHANGED <<handshakeVars, procVars>>
    /\ UNCHANGED extVars

\* stop_sim_process, entry: the timeout parameter takes its default when the
\* keyword is omitted; `if proc.poll() is not None: return`.
stop_sim_process(arg) ==
    /\ pc \in {"s_idle", "s_done"}
    /\ calls < MaxStopCalls
    /\ calls' = calls + 1
    /\ stop_arg' = arg
    /\ timeout' = IF arg = <<>> THEN DEFAULT_STOP_TIMEOUT_SECONDS ELSE arg[1]
    /\ proclog' = <<>>
    /\ IF poll # <<>>
       THEN pc' = "s_done" /\ result' = ReturnedNone
       ELSE pc' = "s_terminate" /\ result' = NoResult
    /\ UNCHANGED <<handshakeVars, procVars>>
    /\ UNCHANGED extVars

\* try: proc.terminate()  except OSError: return
stop_terminate ==
    /\ pc = "s_terminate"
    /\ \E outcome \in SignalOutcomes :
          /\ proclog' = Append(proclog, LogOutcome("terminate", 0, outcome))
          /\ Deliver("TERM", outcome)
          /\ IF outcome = "ok"
             THEN pc' = "s_wait" /\ UNCHANGED result
             ELSE IF outcome \in TerminateHandled
             THEN pc' = "s_done" /\ result' = ReturnedNone
             ELSE pc' = "s_done" /\ result' = Raised(outcome, <<>>)
    /\ UNCHANGED <<handshakeVars, procState, returncode, stopVars>>
    /\ UNCHANGED extVars

\* stop_wait that escalates to kill whatever the graceful wait found.
stop_wait_always_kill ==
    /\ pc = "s_wait"
    /\ proclog' = Append(proclog, LogOutcome("wait", timeout, WaitOutcome))
    /\ pc' = "s_kill"
    /\ UNCHANGED <<handshakeVars, procVars, stopVars, result>>
    /\ UNCHANGED extVars

\* stop_wait that returns when the graceful wait times out.
stop_wait_nokill ==
    /\ pc = "s_wait"
    /\ proclog' = Append(proclog, LogOutcome("wait", timeout, WaitOutcome))
    /\ pc' = "s_done"
    /\ result' = ReturnedNone
    /\ UNCHANGED <<handshakeVars, procVars, stopVars>>
    /\ UNCHANGED extVars

\* try: proc.wait(timeout=timeout)  except subprocess.TimeoutExpired: ...
stop_wait ==
    /\ pc = "s_wait"
    /\ proclog' = Append(proclog, LogOutcome("wait", timeout, WaitOutcome))
    /\ IF WaitOutcome = "ok"
       THEN pc' = "s_done" /\ result' = ReturnedNone
       ELSE IF WaitOutcome \in WaitHandled
       THEN pc' = "s_kill" /\ UNCHANGED result
       ELSE pc' = "s_done" /\ result' = Raised(WaitOutcome, <<>>)
    /\ UNCHANGED <<handshakeVars, procVars, stopVars>>
    /\ UNCHANGED extVars

\* with contextlib.suppress(OSError): proc.kill()
stop_kill ==
    /\ pc = "s_kill"
    /\ \E outcome \in SignalOutcomes :
          /\ proclog' = Append(proclog, LogOutcome("kill", 0, outcome))
          /\ Deliver("KILL", outcome)
          /\ IF outcome = "ok" \/ outcome \in KillSuppressed
             THEN pc' = "s_kill_wait" /\ UNCHANGED result
             ELSE pc' = "s_done" /\ result' = Raised(outcome, <<>>)
    /\ UNCHANGED <<handshakeVars, procState, returncode, stopVars>>
    /\ UNCHANGED extVars

\* The follow-up wait given the caller's timeout as it is.
kill_wait_timeout_uncapped == timeout

\* kill_wait_timeout = min(timeout, _KILL_WAIT_TIMEOUT_SECONDS)
kill_wait_timeout == Min(timeout, KILL_WAIT_TIMEOUT_SECONDS)

\* with contextlib.suppress(TimeoutExpired, OSError):
\*     proc.wait(timeout=kill_wait_timeout)
stop_kill_wait ==
    /\ pc = "s_kill_wait"
    /\ proclog' = Append(proclog, LogOutcome("wait", kill_wait_timeout, WaitOutcome))
    /\ pc' = "s_done"
    /\ result' = IF WaitOutcome = "ok" \/ WaitOutcome \in KillWaitSuppressed
                 THEN ReturnedNone
                 ELSE Raised(WaitOutcome, <<>>)
    /\ UNCHANGED <<handshakeVars, procVars, stopVars>>
    /\ UNCHANGED extVars

\* No simulator process and no call of the supervisor under way.
SupervisorIdle ==
    /\ now = 0
    /\ deadline = 0
    /\ config_file = FALSE
    /\ written = <<>>
    /\ stdoutClosed = FALSE
    /\ procState = "none"
    /\ returncode = <<>>
    /\ signals = {}
    /\ rdPos = 0
    /\ reader = "unstarted"
    /\ line_queue = <<>>
    /\ output_lines = <<>>
    /\ pulledLate = FALSE
    /\ cleanup_msg = <<>>
    /\ joined = FALSE
    /\ pending = NoResult
    /\ proclog = <<>>
    /\ pc = "idle"
    /\ stop_arg = <<>>
    /\ timeout = 0
    /\ calls = 0
    /\ result = NoResult

\* A handle as start_sim_process returned it, possibly exited since.
InitStop ==
    /\ now = 0
    /\ deadline = 0
    /\ config_file = TRUE
    /\ written = <<>>
    /\ stdoutClosed = FALSE
    /\ \/ procState = "running" /\ returncode = <<>>
       \/ procState = "exited" /\ returncode \in {<<0>>, <<1>>}
    /\ signals = {}
    /\ rdPos = 0
    /\ reader = "running"
    /\ line_queue = <<>>
    /\ output_lines = <<>>
    /\ pulledLate = FALSE
    /\ cleanup_msg = <<>>
    /\ joined = TRUE
    /\ pending = NoResult
    /\ proclog = <<>>
    /\ pc = "s_idle"
    /\ stop_arg = <<>>
    /\ timeout = 0
    /\ calls = 0
    /\ result = NoResult
    /\ ExtIdle

NextStop ==
    \/ \E arg \in StopArgs : stop_sim_process(arg)
    \/ stop_terminate
    \/ stop_wait
    \/ stop_kill
    \/ stop_kill_wait
    \/ \E rc \in {0, 1} : ProcExit(rc)
    \/ \E sig \in {"TERM", "KILL"} : ProcDieOnSignal(sig)

SpecStop == InitStop /\ [][NextStop]_vars

-----------------------------------------------------------------------------
(* The github_simulator fixture (simulacat/pytest_plugin.py)               *)

\* What the fixture leaves alone in the supervisor's state: it only calls
\* start_sim_process and stop_sim_process, taken here as single steps.
fixtureFrame == <<handshakeVars, proclog, pc, stop_arg, timeout, result, engineVars>>

\* The github_sim_config values: a ScenarioConfig or a mapping, with or
\* without an auth token; ok is FALSE when resolving it raises
\* (ConfigValidationError for a scenario, TypeError for bad metadata).
FixtureConfigs ==
    [kind : {"scenario", "mapping"}, token : {<<>>, <<"t1">>}, ok : BOOLEAN]

\* Entry of the generator: pytest.skip without Bun, RuntimeError without
\* github3, then `proc = None`.
github_simulator(bun_available, github3_found) ==
    /\ f_pc = "f_idle"
    /\ IF ~bun_available
       THEN f_pc' = "f_done" /\ f_exc' = "Skipped"
       ELSE IF ~github3_found
       THEN f_pc' = "f_done" /\ f_exc' = "RuntimeError"
       ELSE f_pc' = "f_resolve" /\ f_exc' = ""
    /\ f_proc' = <<>>
    /\ UNCHANGED <<f_cfg, f_token, f_started, f_test, fixtureFrame, procVars, calls>>

\* resolve_auth_token / to_simulator_config, or _split_simulacat_config.
fixture_resolve ==
    /\ f_pc = "f_resolve"
    /\ IF f_cfg.ok
       THEN /\ f_token' = f_cfg.token
            /\ f_pc' = "f_start"
            /\ UNCHANGED f_exc
       ELSE /\ f_exc' = IF f_cfg.kind = "scenario"
                        THEN "ConfigValidationError" ELSE "TypeError"
            /\ f_pc' = "f_finally"
            /\ UNCHANGED f_token
    /\ UNCHANGED <<f_cfg, f_proc, f_started, f_test, fixtureFrame, procVars, calls>>

\* proc, port = start_sim_process(sim_config, tmp_path): it returns the
\* handle of a spawned process, or raises with no handle returned (the
\* process was never spawned, or was spawned and cleaned up).
fixture_start(returns, left) ==
    /\ f_pc = "f_start"
    /\ IF returns
       THEN /\ f_proc' = <<"proc">>
            /\ f_started' = f_started + 1
            /\ procState' = "running"
            /\ returncode' = <<>>
            /\ f_pc' = "f_setup"
            /\ UNCHANGED f_exc
       ELSE /\ f_exc' = "GitHubSimProcessError"
            /\ procState' = left
            /\ returncode' = IF left = "exited" THEN <<1>> ELSE <<>>
            /\ f_pc' = "f_finally"
            /\ UNCHANGED <<f_proc, f_started>>
    /\ UNCHANGED <<f_cfg, f_token, f_test, fixtureFrame, signals, calls>>

\* The statements between start_sim_process and yield: the GitHubSession,
\* its headers, the github3.GitHub client; any of them may raise.
fixture_setup(raises) ==
    /\ f_pc = "f_setup"
    /\ IF raises
       THEN f_pc' = "f_finally" /\ f_exc' = "RuntimeError" /\ UNCHANGED f_test
       ELSE f_pc' = "f_yield" /\ f_test' = "running" /\ UNCHANGED f_exc
    /\ UNCHANGED <<f_cfg, f_proc, f_token, f_started, fixtureFrame, procVars, calls>>

\* The test body runs while the generator is suspended at yield; pytest
\* resumes the generator for teardown whether the test passed or failed.
test_body(passes) ==
    /\ f_pc = "f_yield"
    /\ f_test' = IF passes THEN "passed" ELSE "failed"
    /\ f_pc' = "f_finally"
    /\ UNCHANGED <<f_cfg, f_proc, f_token, f_started, f_exc, fixtureFrame, procVars, calls>>

\* The effect on the process of one stop_sim_process call: nothing when it
\* has exited; otherwise it dies of terminate or kill, or is left running.
StopEffect(how) ==
    IF procState # "running"
    THEN UNCHANGED procVars
    ELSE /\ procState' = IF how = "left" THEN "running" ELSE "exited"
         /\ returncode' = IF how = "left" THEN <<>>
                          ELSE IF how = "kill" THEN <<0 - 9>> ELSE <<0 - 15>>
         /\ signals' = {}

\* A teardown written after the yield with no try/finally: it is skipped
\* when setup raised.
fixture_finally_no_try(how) ==
    /\ f_pc = "f_finally"
    /\ IF f_proc # <<>> /\ f_exc = ""
       THEN calls' = calls + 1 /\ StopEffect(how)
       ELSE UNCHANGED <<calls, procVars>>
    /\ f_pc' = "f_done"
    /\ UNCHANGED <<f_cfg, f_proc, f_token, f_started, f_exc, f_test, fixtureFrame>>

\* finally: if proc is not None: stop_sim_process(proc)
fixture_finally(how) ==
    /\ f_pc = "f_finally"
    /\ IF f_proc # <<>>
       THEN calls' = calls + 1 /\ StopEffect(how)
       ELSE UNCHANGED <<calls, procVars>>
    /\ f_pc' = "f_done"
    /\ UNCHANGED <<f_cfg, f_proc, f_token, f_started, f_exc, f_test, fixtureFrame>>

\* The simulator exits by itself while the fixture is in use.
fixture_proc_exit ==
    /\ f_pc \in {"f_setup", "f_yield", "f_finally"}
    /\ procState = "running"
    /\ procState' = "exited"
    /\ returncode' = <<1>>
    /\ signals' = {}
    /\ UNCHANGED <<fixtureVars, fixtureFrame, calls>>

InitFixture ==
    /\ SupervisorIdle
    /\ f_pc = "f_idle"
    /\ f_cfg \in FixtureConfigs
    /\ f_proc = <<>>
    /\ f_token = <<>>
    /\ f_started = 0
    /\ f_exc = ""
    /\ f_test = "none"
    /\ EngineIdle

NextFixture ==
    \/ \E b, g \in BOOLEAN : github_simulator(b, g)
    \/ fixture_resolve
    \/ \E r \in BOOLEAN, left \in {"none", "running", "exited"} : fixture_start(r, left)
    \/ \E r \in BOOLEAN : fixture_setup(r)
    \/ \E ok \in BOOLEAN : test_body(ok)
    \/ \E how \in {"terminate", "kill", "left"} : fixture_finally(how)
    \/ fixture_proc_exit

SpecFixture == InitFixture /\ [][NextFixture]_vars

-----------------------------------------------------------------------------
(* The credential resolver (simulacat/scenario_config.py)                  *)

\* Most tokens in a token pool.
MaxTokens == 3

\* What a call of the resolver leaves alone.
tokenFrame == <<supervisorVars, fixtureVars, scenarioVars, mergeVars>>

Range(f) == { f[i] : i \in DOMAIN f }

\* Strings str.strip() leaves empty.
BlankStrings == {"", " "}

\* _require_text, on a str: it raises for an empty or whitespace-only one.
require_text(value) == value \notin BlankStrings

ConfigValidationError(m) == [kind |-> "raise", exc |-> "ConfigValidationError", msg |-> m]

\* A returned Optional[str]: <<>> is None.
ReturnedValue(v) == [kind |-> "return", value |-> v]

\* _select_auth_token_value that picks the first token when several are
\* configured and no default is given.
select_auth_token_value_first(tv, dt) ==
    IF tv = <<>>
    THEN IF dt # <<>>
         THEN ConfigValidationError("Default token must match one of the configured tokens")
         ELSE ReturnedValue(<<>>)
    ELSE IF dt # <<>>
    THEN IF ~require_text(dt[1])
         THEN ConfigValidationError("Default token must be a non-empty string")
         ELSE IF dt[1] \notin Range(tv)
         THEN ConfigValidationError("Default token must match one of the configured tokens")
         ELSE ReturnedValue(dt)
    ELSE ReturnedValue(<<tv[1]>>)

select_auth_token_value(tv, dt) ==
    IF tv = <<>>
    THEN IF dt # <<>>
         THEN ConfigValidationError("Default token must match one of the configured tokens")
         ELSE ReturnedValue(<<>>)
    ELSE IF dt # <<>>
    THEN IF ~require_text(dt[1])
         THEN ConfigValidationError("Default token must be a non-empty string")
         ELSE IF dt[1] \notin Range(tv)
         THEN ConfigValidationError("Default token must match one of the configured tokens")
         ELSE ReturnedValue(dt)
    ELSE IF Len(tv) = 1
    THEN ReturnedValue(<<tv[1]>>)
    ELSE ConfigValidationError("Multiple tokens configured but no default_token set")

\* Token values as the callers pass them: validated (non-blank) and unique.
TokenStrings == {"t1", "t2", "t3", "t4"}

TokenPools ==
    { tv \in UNION { [1..n -> TokenStrings] : n \in 0..MaxTokens } :
        \A i, j \in DOMAIN tv : i # j => tv[i] # tv[j] }

\* default_token: absent, a token string, an unconfigured one, or blank.
DefaultTokens == {<<>>} \cup { <<t>> : t \in TokenStrings \cup {"other", " ", ""} }

\* One call of _select_auth_token_value on the arguments drawn.
resolve_call ==
    /\ selected.kind = "none"
    /\ selected' = select_auth_token_value(token_values, default_token)
    /\ UNCHANGED <<token_values, default_token, tokenFrame>>

InitToken ==
    /\ SupervisorIdle
    /\ FixtureIdle
    /\ ScenarioIdle
    /\ MergeIdle
    /\ token_values \in TokenPools
    /\ default_token \in DefaultTokens
    /\ selected = [kind |-> "none"]

NextToken == resolve_call

SpecToken == InitToken /\ [][NextToken]_vars

-----------------------------------------------------------------------------
(* Scenario entities (simulacat/scenario_models.py)                        *)
(* Optional fields hold <<>> for None and <<v>> for a value; a repository  *)
(* reference "owner/name" is held as the sequence of its "/"-separated     *)
(* parts.                                                                  *)

Organization(login) == [login |-> login]

User(login, organizations) == [login |-> login, organizations |-> organizations]

DefaultBranch(name, sha, is_protected) ==
    [name |-> name, sha |-> sha, is_protected |-> is_protected]

Repository(owner, name, is_private, default_branch) ==
    [owner |-> owner, name |-> name, is_private |-> is_private,
     default_branch |-> default_branch]

Branch(owner, repository, name, sha, is_protected) ==
    [owner |-> owner, repository |-> repository, name |-> name, sha |-> sha,
     is_protected |-> is_protected]

Issue(owner, repository, number, state) ==
    [owner |-> owner, repository |-> repository, number |-> number,
     title |-> "title", state |-> state]

PullRequest(owner, repository, number, state, base_branch, head_branch) ==
    [owner |-> owner, repository |-> repository, number |-> number,
     title |-> "title", state |-> state, base_branch |-> base_branch,
     head_branch |-> head_branch]

AccessToken(value, owner, permissions, repositories, repository_visibility) ==
    [value |-> value, owner |-> owner, permissions |-> permissions,
     repositories |-> repositories, repository_visibility |-> repository_visibility]

GitHubApp(app_slug, app_id, owner) ==
    [app_slug |-> app_slug, name |-> "App", app_id |-> app_id, owner |-> owner]

AppInstallation(installation_id, app_slug, account, repositories, permissions, access_token) ==
    [installation_id |-> installation_id, app_slug |-> app_slug, account |-> account,
     repositories |-> repositories, permissions |-> permissions,
     access_token |-> access_token]

\* DefaultBranch.to_branch
to_branch(db, owner, repository) ==
    Branch(owner, repository, db.name, db.sha, db.is_protected)

-----------------------------------------------------------------------------
(* Validation helpers (simulacat/scenario_config.py)                       *)

\* The outcome of a validation step: the value it returns, or the
\* ConfigValidationError it raises with the phase that raised it.
Okv(val) == [ok |-> TRUE, val |-> val, phase |-> "", msg |-> ""]
Err(phase, msg) == [ok |-> FALSE, val |-> <<>>, phase |-> phase, msg |-> msg]

\* The first of the checks 1..n that fails, 0 when none does: a for loop
\* that raises at the first offending item.
FirstFailure(n, Check(_)) ==
    LET bad == { i \in 1..n : ~Check(i).ok }
    IN  IF bad = {} THEN 0 ELSE CHOOSE i \in bad : \A j \in bad : i <= j

\* Run the checks 1..n in order; the first failure is the outcome.
ForEach(n, Check(_)) ==
    LET k == FirstFailure(n, Check) IN IF k = 0 THEN Okv(<<>>) ELSE Check(k)

\* _require_text as a step.
RequireText(value, phase, label) ==
    IF require_text(value) THEN Okv(value) ELSE Err(phase, label)

\* _require_positive_int on a value given as IntV / BoolV / StrV.
require_positive_int(value, phase, label) ==
    IF value.t = "int" /\ value.n > 0 THEN Okv(value.n) ELSE Err(phase, label)

\* _ensure_unique: raises at the first value already seen.
ensure_unique(values, phase, label) ==
    IF \E i, j \in DOMAIN values : i < j /\ values[i] = values[j]
    THEN Err(phase, label)
    ELSE Okv(Range(values))

\* The first failure of two steps run one after the other.
Then(a, b) == IF a.ok THEN b ELSE a

\* _parse_repo_reference: "/" not in value, else value.split("/", 1) with
\* both parts required to be text.
parse_repo_reference(ref, phase) ==
    IF Len(ref) < 2
    THEN Err(phase, "Token repository must be in the form 'owner/repo'")
    ELSE Then(RequireText(ref[1], phase, "Token repository owner"),
         Then(RequireText(ref[2], phase, "Token repository name"),
              Okv(<<ref[1], ref[2]>>)))

\* A reference as _require_text sees it: the whole string is blank only
\* when it has no "/" and its one part is blank.
RefText(ref) == IF Len(ref) = 1 THEN ref[1] ELSE "owner/name"

RepoKeys(repo_index) == { <<repo_index[i].owner, repo_index[i].name>> : i \in DOMAIN repo_index }

ALLOWED_REPOSITORY_VISIBILITIES == {"all", "private", "public"}

-----------------------------------------------------------------------------
(* ScenarioConfig validation phases (simulacat/scenario_config.py)         *)

Defined(login, user_logins, org_logins, phase, msg) ==
    IF login \in user_logins \/ login \in org_logins THEN Okv(login) ELSE Err(phase, msg)

\* ScenarioConfig._validate_organizations
validate_organizations(S) ==
    LET orgs == S.organizations
    IN  Then(ForEach(Len(orgs), LAMBDA i :
                 RequireText(orgs[i].login, "organizations", "Organization login must be a non-empty string")),
             ensure_unique([i \in DOMAIN orgs |-> orgs[i].login],
                           "organizations", "Duplicate organization login"))

\* ScenarioConfig._validate_users
validate_users(S, org_logins) ==
    LET users == S.users
        check(i) ==
            LET u == users[i]
            IN  Then(RequireText(u.login, "users", "User login must be a non-empty string"),
                     ForEach(Len(u.organizations), LAMBDA j :
                         Then(RequireText(u.organizations[j], "users", "User organization must be a non-empty string"),
                              IF u.organizations[j] \in org_logins
                              THEN Okv(<<>>)
                              ELSE Err("users", "User organization must refer to a defined organization"))))
    IN  Then(ForEach(Len(users), check),
             ensure_unique([i \in DOMAIN users |-> users[i].login],
                           "users", "Duplicate user login"))

\* ScenarioConfig._validate_repositories; the repo_index it returns is
\* held as the sequence of its values in insertion order.
validate_repositories(S, user_logins, org_logins) ==
    LET repos == S.repositories
        check(i) ==
            LET r == repos[i]
                db == r.default_branch
            IN  Then(RequireText(r.owner, "repositories", "Repository owner must be a non-empty string"),
                Then(RequireText(r.name, "repositories", "Repository name must be a non-empty string"),
                Then(Defined(r.owner, user_logins, org_logins, "repositories",
                             "Repository owner must be a defined user or organization"),
                Then(IF \E j \in 1..(i - 1) : repos[j].owner = r.owner /\ repos[j].name = r.name
                     THEN Err("repositories", "Duplicate repository definition")
                     ELSE Okv(<<>>),
                     IF db = <<>>
                     THEN Okv(<<>>)
                     ELSE Then(RequireText(db[1].name, "repositories", "Default branch name must be a non-empty string"),
                               IF db[1].sha = <<>>
                               THEN Okv(<<>>)
                               ELSE RequireText(db[1].sha[1], "repositories", "Default branch sha must be a non-empty string"))))))
    IN  Then(ForEach(Len(repos), check), Okv(repos))

\* The repository scope of a token or an installation: every reference is
\* text, parses as owner/name and names a configured repository.
RepositoryScope(refs, repo_index, phase, msg) ==
    ForEach(Len(refs), LAMBDA k :
        LET key == parse_repo_reference(refs[k], phase)
        IN  Then(key,
                 IF key.val \in RepoKeys(repo_index) THEN Okv(<<>>) ELSE Err(phase, msg)))

\* ScenarioConfig._validate_tokens
validate_tokens(S, user_logins, org_logins, repo_index) ==
    LET tokens == S.tokens
        check(i) ==
            LET t == tokens[i]
            IN  Then(RequireText(t.value, "tokens", "Token value must be a non-empty string"),
                Then(RequireText(t.owner, "tokens", "Token owner must be a non-empty string"),
                Then(Defined(t.owner, user_logins, org_logins, "tokens",
                             "Token owner must be a defined user or organization"),
                Then(ForEach(Len(t.permissions), LAMBDA k :
                         RequireText(t.permissions[k], "tokens", "Token permission must be a non-empty string")),
                Then(ensure_unique(t.permissions, "tokens", "Duplicate token permission"),
                Then(ForEach(Len(t.repositories), LAMBDA k :
                         RequireText(RefText(t.repositories[k]), "tokens", "Token repository must be a non-empty string")),
                Then(ensure_unique(t.repositories, "tokens", "Duplicate token repository reference"),
                Then(RepositoryScope(t.repositories, repo_index, "tokens",
                                     "Token repository must reference a configured repository"),
                     IF t.repository_visibility = <<>>
                        \/ t.repository_visibility[1] \in ALLOWED_REPOSITORY_VISIBILITIES
                     THEN Okv(<<>>)
                     ELSE Err("tokens", "Token repository visibility must be one of")))))))))
    IN  Then(ForEach(Len(tokens), check),
             ensure_unique([i \in DOMAIN tokens |-> tokens[i].value],
                           "tokens", "Duplicate token value"))

\* ScenarioConfig._validate_apps
validate_apps(S, user_logins, org_logins) ==
    LET apps == S.apps
        check(i) ==
            LET a == apps[i]
            IN  Then(RequireText(a.app_slug, "apps", "App slug must be a non-empty string"),
                Then(RequireText(a.name, "apps", "App name must be a non-empty string"),
                Then(IF a.app_id = <<>> THEN Okv(<<>>)
                     ELSE require_positive_int(a.app_id[1], "apps", "App ID must be a positive integer"),
                     IF a.owner = <<>> THEN Okv(<<>>)
                     ELSE Then(RequireText(a.owner[1], "apps", "App owner must be a non-empty string"),
                               Defined(a.owner[1], user_logins, org_logins, "apps",
                                       "App owner must be a defined user or organization")))))
    IN  Then(ForEach(Len(apps), check),
             ensure_unique([i \in DOMAIN apps |-> apps[i].app_slug], "apps", "Duplicate app slug"))

\* The access tokens of the installations 1..n, in order.
RECURSIVE InstallationTokens(_, _)
InstallationTokens(insts, n) ==
    IF n = 0 THEN <<>>
    ELSE InstallationTokens(insts, n - 1) \o insts[n].access_token

\* A variant that does not compare an installation token with the pool.
validate_app_installations_no_pool(S, app_slugs, user_logins, org_logins, repo_index) ==
    LET insts == S.app_installations
        check(i) ==
            LET n == insts[i]
            IN  Then(require_positive_int(n.installation_id, "app_installations",
                                          "Installation ID must be a positive integer"),
                Then(RequireText(n.app_slug, "app_installations", "Installation app slug must be a non-empty string"),
                Then(IF n.app_slug \in app_slugs THEN Okv(<<>>)
                     ELSE Err("app_installations", "Installation app must reference a defined GitHub App"),
                Then(RequireText(n.account, "app_installations", "Installation account must be a non-empty string"),
                Then(Defined(n.account, user_logins, org_logins, "app_installations",
                             "Installation account must be a defined user or organization"),
                Then(ForEach(Len(n.repositories), LAMBDA k :
                         Then(RequireText(RefText(n.repositories[k]), "app_installations",
                                          "Installation repository must be a non-empty string"),
                              RepositoryScope(<<n.repositories[k]>>, repo_index, "app_installations",
                                              "Installation repository must reference a configured repository"))),
                Then(ForEach(Len(n.permissions), LAMBDA k :
                         RequireText(n.permissions[k], "app_installations",
                                     "Installation permission must be a non-empty string")),
                Then(ensure_unique(n.permissions, "app_installations", "Duplicate installation permission"),
                     IF n.access_token = <<>> THEN Okv(<<>>)
                     ELSE Then(RequireText(n.access_token[1], "app_installations",
                                           "Installation access token must be a non-empty string"),
                               Okv(<<>>))))))))))
    IN  Then(ForEach(Len(insts), check),
             ensure_unique([i \in DOMAIN insts |-> insts[i].installation_id],
                           "app_installations", "Duplicate installation ID"))

\* ScenarioConfig._validate_app_installations
validate_app_installations(S, app_slugs, user_logins, org_logins, repo_index) ==
    LET insts == S.app_installations
        standalone == [i \in DOMAIN S.tokens |-> S.tokens[i].value]
        check(i) ==
            LET n == insts[i]
                token_pool == standalone \o InstallationTokens(insts, i - 1)
            IN  Then(require_positive_int(n.installation_id, "app_installations",
                                          "Installation ID must be a positive integer"),
                Then(RequireText(n.app_slug, "app_installations", "Installation app slug must be a non-empty string"),
                Then(IF n.app_slug \in app_slugs THEN Okv(<<>>)
                     ELSE Err("app_installations", "Installation app must reference a defined GitHub App"),
                Then(RequireText(n.account, "app_installations", "Installation account must be a non-empty string"),
                Then(Defined(n.account, user_logins, org_logins, "app_installations",
                             "Installation account must be a defined user or organization"),
                Then(ForEach(Len(n.repositories), LAMBDA k :
                         Then(RequireText(RefText(n.repositories[k]), "app_installations",
                                          "Installation repository must be a non-empty string"),
                              RepositoryScope(<<n.repositories[k]>>, repo_index, "app_installations",
                                              "Installation repository must reference a configured repository"))),
                Then(ForEach(Len(n.permissions), LAMBDA k :
                         RequireText(n.permissions[k], "app_installations",
                                     "Installation permission must be a non-empty string")),
                Then(ensure_unique(n.permissions, "app_installations", "Duplicate installation permission"),
                     IF n.access_token = <<>> THEN Okv(<<>>)
                     ELSE Then(RequireText(n.access_token[1], "app_installations",
                                           "Installation access token must be a non-empty string"),
                               IF n.access_token[1] \in Range(token_pool)
                               THEN Err("app_installations",
                                        "Duplicate token value: installation access_token duplicates a standalone token")
                               ELSE Okv(<<>>))))))))))
    IN  Then(ForEach(Len(insts), check),
             ensure_unique([i \in DOMAIN insts |-> insts[i].installation_id],
                           "app_installations", "Duplicate installation ID"))

\* The candidate pool: standalone token values, then installation tokens.
TokenPool(S) ==
    [i \in DOMAIN S.tokens |-> S.tokens[i].value]
        \o InstallationTokens(S.app_installations, Len(S.app_installations))

\* ScenarioConfig._validate_default_token
validate_default_token(S) ==
    LET r == select_auth_token_value(TokenPool(S), S.default_token)
    IN  IF r.kind = "raise" THEN Err("default_token", r.msg) ELSE Okv(<<>>)

\* Python truthiness of an optional str: None and "" are false.
Truthy(sha) == sha # <<>> /\ sha[1] # ""

\* ScenarioConfig._validate_branch_overlap
validate_branch_overlap(existing, incoming, is_default) ==
    LET sha_differs == Truthy(existing.sha) /\ Truthy(incoming.sha)
                       /\ existing.sha # incoming.sha
        protected_differs == existing.is_protected # <<>> /\ incoming.is_protected # <<>>
                             /\ existing.is_protected # incoming.is_protected
    IN  IF sha_differs \/ protected_differs
        THEN Err("branches", IF is_default THEN "Conflicting default branch metadata"
                             ELSE "Conflicting branch metadata")
        ELSE Okv(<<>>)

\* ScenarioConfig._validate_branch_core
validate_branch_core(branch, repo_index) ==
    Then(RequireText(branch.owner, "branches", "Branch owner must be a non-empty string"),
    Then(RequireText(branch.repository, "branches", "Branch repository must be a non-empty string"),
    Then(RequireText(branch.name, "branches", "Branch name must be a non-empty string"),
    Then(IF branch.sha = <<>> THEN Okv(<<>>)
         ELSE RequireText(branch.sha[1], "branches", "Branch sha must be a non-empty string"),
         IF <<branch.owner, branch.repository>> \in RepoKeys(repo_index)
         THEN Okv(<<branch.owner, branch.repository>>)
         ELSE Err("branches", "Branch refers to unknown repository")))))

\* The branch_index is held as the sequence of its branches in insertion
\* order; an assignment to a key already present replaces the entry in place.
SameBranch(b, owner, repository, name) ==
    b.owner = owner /\ b.repository = repository /\ b.name = name

Position(branch_index, owner, repository, name) ==
    IF \E i \in DOMAIN branch_index : SameBranch(branch_index[i], owner, repository, name)
    THEN CHOOSE i \in DOMAIN branch_index : SameBranch(branch_index[i], owner, repository, name)
    ELSE 0

Put(branch_index, branch) ==
    LET k == Position(branch_index, branch.owner, branch.repository, branch.name)
    IN  IF k = 0 THEN Append(branch_index, branch)
        ELSE [branch_index EXCEPT ![k] = branch]

\* ScenarioConfig._validate_explicit_branches, from branch i on.
RECURSIVE validate_explicit_branches(_, _, _, _)
validate_explicit_branches(branches, i, repo_index, branch_index) ==
    IF i > Len(branches) THEN Okv(branch_index)
    ELSE LET branch == branches[i]
             key == validate_branch_core(branch, repo_index)
             k == Position(branch_index, branch.owner, branch.repository, branch.name)
             overlap == IF k = 0 THEN Okv(<<>>)
                        ELSE validate_branch_overlap(branch_index[k], branch, FALSE)
         IN  IF ~key.ok THEN key
             ELSE IF ~overlap.ok THEN overlap
             ELSE validate_explicit_branches(branches, i + 1, repo_index,
                                             Put(branch_index, branch))

\* ScenarioConfig._merge_default_branch
merge_default_branch(owner, repository, default_branch, branch_index) ==
    LET default_as_branch == to_branch(default_branch, owner, repository)
        k == Position(branch_index, owner, repository, default_as_branch.name)
        existing == branch_index[k]
        overlap == validate_branch_overlap(existing, default_as_branch, TRUE)
    IN  IF k = 0 THEN Okv(Append(branch_index, default_as_branch))
        ELSE IF ~overlap.ok THEN overlap
        ELSE Okv([branch_index EXCEPT ![k] =
                    Branch(existing.owner, existing.repository, existing.name,
                           IF Truthy(existing.sha) THEN existing.sha ELSE default_as_branch.sha,
                           IF existing.is_protected # <<>> THEN existing.is_protected
                           ELSE default_as_branch.is_protected)])

\* ScenarioConfig._attach_default_branches, from repository i on.
RECURSIVE attach_default_branches(_, _, _)
attach_default_branches(repo_index, i, branch_index) ==
    IF i > Len(repo_index) THEN Okv(branch_index)
    ELSE LET repo == repo_index[i]
         IN  IF repo.default_branch = <<>>
             THEN attach_default_branches(repo_index, i + 1, branch_index)
             ELSE LET m == merge_default_branch(repo.owner, repo.name,
                                                repo.default_branch[1], branch_index)
                  IN  IF ~m.ok THEN m
                      ELSE attach_default_branches(repo_index, i + 1, m.val)

\* ScenarioConfig._validate_branches
validate_branches(S, repo_index) ==
    LET explicit == validate_explicit_branches(S.branches, 1, repo_index, <<>>)
    IN  IF ~explicit.ok THEN explicit
        ELSE attach_default_branches(repo_index, 1, explicit.val)

\* ScenarioConfig._require_state
require_state(state, phase, label) ==
    IF state \in {"open", "closed"} THEN Okv(<<>>) ELSE Err(phase, label)

\* ScenarioConfig._validate_issues
validate_issues(S, repo_index) ==
    LET issues == S.issues
        check(i) ==
            LET e == issues[i]
            IN  Then(RequireText(e.owner, "issues", "Issue owner must be a non-empty string"),
                Then(RequireText(e.repository, "issues", "Issue repository must be a non-empty string"),
                Then(require_positive_int(e.number, "issues", "Issue number must be a positive integer"),
                Then(RequireText(e.title, "issues", "Issue title must be a non-empty string"),
                Then(require_state(e.state, "issues", "Issue state must be one of"),
                Then(IF <<e.owner, e.repository>> \in RepoKeys(repo_index) THEN Okv(<<>>)
                     ELSE Err("issues", "Issue refers to unknown repository"),
                     IF \E j \in 1..(i - 1) :
                            /\ issues[j].owner = e.owner
                            /\ issues[j].repository = e.repository
                            /\ issues[j].number = e.number
                     THEN Err("issues", "Duplicate issue number")
                     ELSE Okv(<<>>)))))))
    IN  ForEach(Len(issues), check)

\* A variant that accepts any base and head branch name.
validate_pull_request_branches_unchecked(pr, branch_index) ==
    LET refs == <<pr.base_branch, pr.head_branch>>
    IN  ForEach(2, LAMBDA k :
            IF refs[k] = <<>> THEN Okv(<<>>)
            ELSE RequireText(refs[k][1], "pull_requests", "Pull request branch must be a non-empty string"))

\* ScenarioConfig._validate_pull_request_branches
validate_pull_request_branches(pr, branch_index) ==
    LET refs == <<pr.base_branch, pr.head_branch>>
    IN  ForEach(2, LAMBDA k :
            IF refs[k] = <<>> THEN Okv(<<>>)
            ELSE Then(RequireText(refs[k][1], "pull_requests", "Pull request branch must be a non-empty string"),
                      IF Position(branch_index, pr.owner, pr.repository, refs[k][1]) # 0
                      THEN Okv(<<>>)
                      ELSE Err("pull_requests", "Pull request branch must reference a configured branch")))

\* ScenarioConfig._validate_pull_requests
validate_pull_requests(S, repo_index, branch_index) ==
    LET prs == S.pull_requests
        check(i) ==
            LET e == prs[i]
            IN  Then(RequireText(e.owner, "pull_requests", "Pull request owner must be a non-empty string"),
                Then(RequireText(e.repository, "pull_requests", "Pull request repository must be a non-empty string"),
                Then(require_positive_int(e.number, "pull_requests", "Pull request number must be a positive integer"),
                Then(RequireText(e.title, "pull_requests", "Pull request title must be a non-empty string"),
                Then(require_state(e.state, "pull_requests", "Pull request state must be one of"),
                Then(IF <<e.owner, e.repository>> \in RepoKeys(repo_index) THEN Okv(<<>>)
                     ELSE Err("pull_requests", "Pull request refers to unknown repository"),
                Then(IF \E j \in 1..(i - 1) :
                            /\ prs[j].owner = e.owner
                            /\ prs[j].repository = e.repository
                            /\ prs[j].number = e.number
                     THEN Err("pull_requests", "Duplicate pull request number")
                     ELSE Okv(<<>>),
                     validate_pull_request_branches(e, branch_index))))))))
    IN  ForEach(Len(prs), check)

\* A variant that validates the branches before the tokens.
build_indexes_branches_first(S) ==
    LET org_logins == validate_organizations(S)
        user_logins == validate_users(S, org_logins.val)
        repo_index == validate_repositories(S, user_logins.val, org_logins.val)
        branch_index == validate_branches(S, repo_index.val)
        tokens == validate_tokens(S, user_logins.val, org_logins.val, repo_index.val)
        app_slugs == validate_apps(S, user_logins.val, org_logins.val)
        installations == validate_app_installations(S, app_slugs.val, user_logins.val,
                                                    org_logins.val, repo_index.val)
        default == validate_default_token(S)
    IN  IF ~org_logins.ok THEN org_logins
        ELSE IF ~user_logins.ok THEN user_logins
        ELSE IF ~repo_index.ok THEN repo_index
        ELSE IF ~branch_index.ok THEN branch_index
        ELSE IF ~tokens.ok THEN tokens
        ELSE IF ~app_slugs.ok THEN app_slugs
        ELSE IF ~installations.ok THEN installations
        ELSE IF ~default.ok THEN default
        ELSE Okv([org_logins |-> org_logins.val, user_logins |-> user_logins.val,
                  repo_index |-> repo_index.val, branch_index |-> branch_index.val,
                  app_slugs |-> app_slugs.val])

\* ScenarioConfig._build_indexes
build_indexes(S) ==
    LET org_logins == validate_organizations(S)
        user_logins == validate_users(S, org_logins.val)
        repo_index == validate_repositories(S, user_logins.val, org_logins.val)
        tokens == validate_tokens(S, user_logins.val, org_logins.val, repo_index.val)
        app_slugs == validate_apps(S, user_logins.val, org_logins.val)
        installations == validate_app_installations(S, app_slugs.val, user_logins.val,
                                                    org_logins.val, repo_index.val)
        default == validate_default_token(S)
        branch_index == validate_branches(S, repo_index.val)
    IN  IF ~org_logins.ok THEN org_logins
        ELSE IF ~user_logins.ok THEN user_logins
        ELSE IF ~repo_index.ok THEN repo_index
        ELSE IF ~tokens.ok THEN tokens
        ELSE IF ~app_slugs.ok THEN app_slugs
        ELSE IF ~installations.ok THEN installations
        ELSE IF ~default.ok THEN default
        ELSE IF ~branch_index.ok THEN branch_index
        ELSE Okv([org_logins |-> org_logins.val, user_logins |-> user_logins.val,
                  repo_index |-> repo_index.val, branch_index |-> branch_index.val,
                  app_slugs |-> app_slugs.val])

-----------------------------------------------------------------------------
(* ScenarioConfig operations                                               *)

\* The to_dict methods of the entities: a dict is a function on its keys.
user_to_dict(u) == [login |-> u.login, organizations |-> u.organizations]

organization_to_dict(o) == [login |-> o.login]

repository_to_dict(r) ==
    [k \in {"owner", "name", "private"}
           \cup (IF r.default_branch # <<>> THEN {"default_branch"} ELSE {}) |->
        CASE k = "owner" -> r.owner
          [] k = "name" -> r.name
          [] k = "private" -> r.is_private
          [] k = "default_branch" -> r.default_branch[1].name]

branch_to_dict(b) ==
    [k \in {"owner", "repository", "name"}
           \cup (IF b.is_protected # <<>> THEN {"protected"} ELSE {})
           \cup (IF b.sha # <<>> THEN {"sha"} ELSE {}) |->
        CASE k = "owner" -> b.owner
          [] k = "repository" -> b.repository
          [] k = "name" -> b.name
          [] k = "protected" -> b.is_protected[1]
          [] k = "sha" -> b.sha[1]]

issue_to_dict(e) ==
    [owner |-> e.owner, repository |-> e.repository, number |-> e.number,
     title |-> e.title, state |-> e.state]

pull_request_to_dict(e) ==
    [k \in {"owner", "repository", "number", "title", "state"}
           \cup (IF e.base_branch # <<>> THEN {"base"} ELSE {})
           \cup (IF e.head_branch # <<>> THEN {"head"} ELSE {}) |->
        CASE k = "owner" -> e.owner
          [] k = "repository" -> e.repository
          [] k = "number" -> e.number
          [] k = "title" -> e.title
          [] k = "state" -> e.state
          [] k = "base" -> [ref |-> e.base_branch[1]]
          [] k = "head" -> [ref |-> e.head_branch[1]]]

\* branch_index.values() flattened: the repositories in the order their
\* first branch was inserted, each with its branches in insertion order.
RECURSIVE BranchList(_)
BranchList(branch_index) ==
    IF branch_index = <<>> THEN <<>>
    ELSE LET h == Head(branch_index)
             Same(b) == b.owner = h.owner /\ b.repository = h.repository
             Other(b) == ~Same(b)
         IN  SelectSeq(branch_index, Same) \o BranchList(SelectSeq(branch_index, Other))

MapSeq(seq, F(_)) == [i \in DOMAIN seq |-> F(seq[i])]

\* A variant that also emits the token values.
simulator_config_with_tokens(S, idx, include_unsupported) ==
    [users |-> MapSeq(S.users, user_to_dict),
     organizations |-> MapSeq(S.organizations, organization_to_dict),
     repositories |-> MapSeq(S.repositories, repository_to_dict),
     branches |-> MapSeq(BranchList(idx.branch_index), branch_to_dict),
     blobs |-> <<>>,
     tokens |-> MapSeq(S.tokens, LAMBDA t : [value |-> t.value])]

\* The configuration to_simulator_config builds (lines 200-216).
simulator_config(S, idx, include_unsupported) ==
    LET users == MapSeq(S.users, user_to_dict)
        organizations == MapSeq(S.organizations, organization_to_dict)
        repositories == MapSeq(S.repositories, repository_to_dict)
        branches == MapSeq(BranchList(idx.branch_index), branch_to_dict)
    IN  IF include_unsupported
        THEN [users |-> users, organizations |-> organizations,
              repositories |-> repositories, branches |-> branches, blobs |-> <<>>,
              issues |-> MapSeq(S.issues, issue_to_dict),
              pull_requests |-> MapSeq(S.pull_requests, pull_request_to_dict)]
        ELSE [users |-> users, organizations |-> organizations,
              repositories |-> repositories, branches |-> branches, blobs |-> <<>>]

\* The outcome of a call on the scenario.
NoOutcome == [kind |-> "none", phase |-> "", msg |-> "", config |-> <<>>, token |-> <<>>]
RaisedIn(e) == [kind |-> "raise", phase |-> e.phase, msg |-> e.msg, config |-> <<>>, token |-> <<>>]
ReturnedNothing == [kind |-> "return", phase |-> "", msg |-> "", config |-> <<>>, token |-> <<>>]
ReturnedConfig(c) == [kind |-> "return", phase |-> "", msg |-> "", config |-> <<c>>, token |-> <<>>]
ReturnedToken(t) == [kind |-> "return", phase |-> "", msg |-> "", config |-> <<>>, token |-> t]

\* ScenarioConfig._ensure_indexes: the memoized indexes, or a build.
ensure_indexes(S, memo) == IF memo # <<>> THEN Okv(memo[1]) ELSE build_indexes(S)

\* The issue and pull-request phases run when include_unsupported is set.
validate_unsupported(S, idx) ==
    Then(validate_issues(S, idx.repo_index),
         validate_pull_requests(S, idx.repo_index, idx.branch_index))

\* What a call on the scenario leaves alone.
scenarioFrame == <<supervisorVars, fixtureVars, tokenVars, mergeVars>>

\* A validate that empties the memo slot when the call raises.
validate_clearing(include_unsupported) ==
    /\ LET idx == ensure_indexes(scenario, indexes)
           rest == IF include_unsupported
                   THEN validate_unsupported(scenario, idx.val) ELSE Okv(<<>>)
       IN  /\ indexes' = IF idx.ok /\ rest.ok THEN <<idx.val>> ELSE <<>>
           /\ s_out' = IF ~idx.ok THEN RaisedIn(idx)
                       ELSE IF ~rest.ok THEN RaisedIn(rest)
                       ELSE ReturnedNothing
    /\ s_call' = [op |-> "validate", include_unsupported |-> include_unsupported]
    /\ UNCHANGED <<scenario, scenarioFrame>>

\* ScenarioConfig.validate
validate(include_unsupported) ==
    /\ LET idx == ensure_indexes(scenario, indexes)
           rest == IF include_unsupported
                   THEN validate_unsupported(scenario, idx.val) ELSE Okv(<<>>)
       IN  /\ indexes' = IF idx.ok THEN <<idx.val>> ELSE indexes
           /\ s_out' = IF ~idx.ok THEN RaisedIn(idx)
                       ELSE IF ~rest.ok THEN RaisedIn(rest)
                       ELSE ReturnedNothing
    /\ s_call' = [op |-> "validate", include_unsupported |-> include_unsupported]
    /\ UNCHANGED <<scenario, scenarioFrame>>

\* A variant that never validates the issues and pull requests.
to_simulator_config_unvalidated(include_unsupported) ==
    /\ LET idx == ensure_indexes(scenario, indexes)
       IN  /\ indexes' = IF idx.ok THEN <<idx.val>> ELSE indexes
           /\ s_out' = IF ~idx.ok THEN RaisedIn(idx)
                       ELSE ReturnedConfig(simulator_config(scenario, idx.val,
                                                            include_unsupported))
    /\ s_call' = [op |-> "to_simulator_config", include_unsupported |-> include_unsupported]
    /\ UNCHANGED <<scenario, scenarioFrame>>

\* ScenarioConfig.to_simulator_config
to_simulator_config(include_unsupported) ==
    /\ LET idx == ensure_indexes(scenario, indexes)
           rest == IF include_unsupported
                   THEN validate_unsupported(scenario, idx.val) ELSE Okv(<<>>)
       IN  /\ indexes' = IF idx.ok THEN <<idx.val>> ELSE indexes
           /\ s_out' = IF ~idx.ok THEN RaisedIn(idx)
                       ELSE IF ~rest.ok THEN RaisedIn(rest)
                       ELSE ReturnedConfig(simulator_config(scenario, idx.val,
                                                            include_unsupported))
    /\ s_call' = [op |-> "to_simulator_config", include_unsupported |-> include_unsupported]
    /\ UNCHANGED <<scenario, scenarioFrame>>

\* ScenarioConfig.resolve_auth_token
resolve_auth_token ==
    /\ LET idx == ensure_indexes(scenario, indexes)
           r == select_auth_token_value(TokenPool(scenario), scenario.default_token)
       IN  /\ indexes' = IF idx.ok THEN <<idx.val>> ELSE indexes
           /\ s_out' = IF ~idx.ok THEN RaisedIn(idx)
                       ELSE IF r.kind = "raise" THEN RaisedIn(Err("resolve", r.msg))
                       ELSE ReturnedToken(r.value)
    /\ s_call' = [op |-> "resolve_auth_token", include_unsupported |-> FALSE]
    /\ UNCHANGED <<scenario, scenarioFrame>>

-----------------------------------------------------------------------------
(* The scenarios tried                                                     *)

\* Most collections in which a scenario differs from the base scenario.
MaxVariations == 2

None == <<>>
Some(v) == <<v>>

RocketRef == <<"alice", "rocket">>

\* Default-branch descriptors and explicit branches named main, over the
\* commit ids and protection flags None / given.
DefaultMains ==
    { DefaultBranch("main", sha, prot) :
        sha \in {None, Some("abc"), Some("def")}, prot \in {None, Some(FALSE)} }

ExplicitMains ==
    { Branch("alice", "rocket", "main", sha, prot) :
        sha \in {None, Some("abc")}, prot \in {None, Some(TRUE)} }
    \cup { Branch("alice", "rocket", "main", None, Some(FALSE)) }

\* The base scenario: valid, with one entity of most kinds.
BaseScenario ==
    [organizations |-> <<Organization("acme")>>,
     users |-> <<User("alice", <<"acme">>)>>,
     repositories |-> <<Repository("alice", "rocket", FALSE,
                                   Some(DefaultBranch("main", None, None)))>>,
     branches |-> <<>>,
     issues |-> <<>>,
     pull_requests |-> <<>>,
     tokens |-> <<AccessToken("t1", "alice", <<"repo">>, <<RocketRef>>, Some("public"))>>,
     apps |-> <<GitHubApp("app1", Some(IntV(7)), Some("acme"))>>,
     app_installations |-> <<>>,
     default_token |-> None]

\* The values each collection takes besides the base scenario's.
Options ==
    [organizations |->
          { <<Organization("acme"), Organization("acme")>>,
            <<Organization(" ")>> },
     users |->
          { <<User("alice", <<"ghost">>)>>,
            <<User("alice", <<>>), User("alice", <<>>)>> },
     repositories |->
          { <<Repository("alice", "rocket", FALSE, Some(db))>> :
               db \in DefaultMains \ {DefaultBranch("main", None, None)} }
          \cup { <<Repository("alice", "rocket", FALSE, None)>>,
                 <<Repository("ghost", "rocket", FALSE, None)>>,
                 <<Repository("alice", "rocket", FALSE, None),
                   Repository("alice", "rocket", TRUE, None)>> },
     branches |->
          { <<b>> : b \in ExplicitMains }
          \cup { <<Branch("alice", "ghost", "main", None, None)>>,
                 <<Branch("alice", "rocket", "main", Some("abc"), None),
                   Branch("alice", "rocket", "main", None, None)>>,
                 <<Branch("alice", "rocket", "main", Some("abc"), None),
                   Branch("alice", "rocket", "main", Some("def"), None)>> },
     issues |->
          { <<Issue("alice", "rocket", IntV(1), "open")>>,
            <<Issue("alice", "ghost", IntV(1), "open")>>,
            <<Issue("alice", "rocket", IntV(1), "open"), Issue("alice", "rocket", IntV(1), "closed")>>,
            <<Issue("alice", "rocket", IntV(0), "merged")>> },
     pull_requests |->
          { <<PullRequest("alice", "rocket", IntV(1), "open", Some("main"), None)>>,
            <<PullRequest("alice", "ghost", IntV(1), "open", None, None)>>,
            <<PullRequest("alice", "rocket", IntV(1), "open", Some("ghost"), None)>>,
            <<PullRequest("alice", "rocket", IntV(1), "open", Some("main"), Some("ghost"))>>,
            <<PullRequest("alice", "rocket", IntV(2), "open", None, None),
              PullRequest("alice", "rocket", IntV(2), "closed", None, None)>> },
     tokens |->
          { <<>>,
            <<AccessToken("t1", "ghost", <<>>, <<>>, None)>>,
            <<AccessToken("t1", "alice", <<>>, <<<<"alice", "ghost">>>>, None)>>,
            <<AccessToken("t1", "alice", <<>>, <<>>, None), AccessToken("t1", "acme", <<>>, <<>>, None)>>,
            <<AccessToken("t1", "alice", <<>>, <<>>, None), AccessToken("t2", "acme", <<>>, <<>>, None)>> },
     apps |->
          { <<>>,
            <<GitHubApp("app1", None, Some("ghost"))>>,
            <<GitHubApp("app1", None, None), GitHubApp("app1", None, None)>> },
     app_installations |->
          { <<AppInstallation(IntV(1), "app1", "alice", <<RocketRef>>, <<"contents">>, None)>>,
            <<AppInstallation(IntV(1), "app1", "alice", <<>>, <<>>, Some("it1"))>>,
            <<AppInstallation(IntV(1), "ghost", "alice", <<>>, <<>>, None)>>,
            <<AppInstallation(IntV(1), "app1", "ghost", <<>>, <<>>, None)>>,
            <<AppInstallation(IntV(1), "app1", "alice", <<<<"alice", "ghost">>>>, <<>>, None)>>,
            <<AppInstallation(IntV(1), "app1", "alice", <<>>, <<>>, Some("t1"))>>,
            <<AppInstallation(IntV(1), "app1", "alice", <<>>, <<>>, Some("it1")),
              AppInstallation(IntV(2), "app1", "acme", <<>>, <<>>, Some("it1"))>>,
            <<AppInstallation(IntV(1), "app1", "alice", <<>>, <<>>, None),
              AppInstallation(IntV(1), "app1", "acme", <<>>, <<>>, None)>> },
     default_token |->
          { Some("t1"), Some("it1"), Some("other") }]

\* The collections, in the order of the ScenarioConfig fields.
Collections ==
    << "users", "organizations", "repositories", "branches", "issues",
       "pull_requests", "tokens", "apps", "app_installations", "default_token" >>

\* The scenarios that are S in the collections before the i-th and differ from
\* the base scenario in at most n of the collections from the i-th on.
RECURSIVE ScenariosFrom(_, _, _)
ScenariosFrom(S, i, n) ==
    IF i > Len(Collections) \/ n = 0 THEN {S}
    ELSE ScenariosFrom(S, i + 1, n)
         \cup UNION { ScenariosFrom([S EXCEPT ![Collections[i]] = o], i + 1, n - 1) :
                        o \in Options[Collections[i]] }

Scenarios == ScenariosFrom(BaseScenario, 1, MaxVariations)

InitScenario ==
    /\ SupervisorIdle
    /\ FixtureIdle
    /\ TokenIdle
    /\ MergeIdle
    /\ scenario \in Scenarios
    /\ indexes = <<>>
    /\ s_call = [op |-> "none", include_unsupported |-> FALSE]
    /\ s_out = NoOutcome

NextScenario ==
    \/ \E iu \in BOOLEAN : validate(iu)
    \/ \E iu \in BOOLEAN : to_simulator_config(iu)
    \/ resolve_auth_token

SpecScenario == InitScenario /\ [][NextScenario]_vars

-----------------------------------------------------------------------------
(* The scenario composer (simulacat/scenario_factories.py)                 *)

\* Most scenarios given to one merge_scenarios call.
MaxFragments == 2

\* ScenarioConfig(): every collection empty, no default token.
EmptyScenario ==
    [users |-> <<>>, organizations |-> <<>>, repositories |-> <<>>, branches |-> <<>>,
     issues |-> <<>>, pull_requests |-> <<>>, tokens |-> <<>>, apps |-> <<>>,
     app_installations |-> <<>>, default_token |-> None]

\* The _MergeSpec of each _merge_entries call of merge_scenarios, in order:
\* its label and the collection its getter reads.
MergeSpecs ==
    << [label |-> "user", field |-> "users"],
       [label |-> "organization", field |-> "organizations"],
       [label |-> "repository", field |-> "repositories"],
       [label |-> "branch", field |-> "branches"],
       [label |-> "issue", field |-> "issues"],
       [label |-> "pull request", field |-> "pull_requests"],
       [label |-> "app", field |-> "apps"],
       [label |-> "app installation", field |-> "app_installations"] >>

\* The key lambdas of the merge specs.
merge_key(field, item) ==
    CASE field = "users" -> <<item.login>>
      [] field = "organizations" -> <<item.login>>
      [] field = "repositories" -> <<item.owner, item.name>>
      [] field = "branches" -> <<item.owner, item.repository, item.name>>
      [] field = "issues" -> <<item.owner, item.repository, item.number>>
      [] field = "pull_requests" -> <<item.owner, item.repository, item.number>>
      [] field = "apps" -> <<item.app_slug>>
      [] field = "app_installations" -> <<item.installation_id>>

\* The items the two nested loops of _merge_entries visit, in order.
RECURSIVE Entries(_, _, _)
Entries(scenarios, n, field) ==
    IF n = 0 THEN <<>> ELSE Entries(scenarios, n - 1, field) \o scenarios[n][field]

\* The loop body of _merge_entries from item i on; merged holds the values
\* of the dict in insertion order.
RECURSIVE merge_from(_, _, _, _)
merge_from(items, i, spec, merged) ==
    IF i > Len(items) THEN Okv(merged)
    ELSE LET item == items[i]
             item_key == merge_key(spec.field, item)
             at == { k \in DOMAIN merged : merge_key(spec.field, merged[k]) = item_key }
         IN  IF at = {}
             THEN merge_from(items, i + 1, spec, Append(merged, item))
             ELSE IF merged[CHOOSE k \in at : TRUE] # item
             THEN Err(spec.label, item_key)
             ELSE merge_from(items, i + 1, spec, merged)

\* _merge_entries
merge_entries(scenarios, spec) ==
    merge_from(Entries(scenarios, Len(scenarios), spec.field), 1, spec, <<>>)

\* The outcome of a merge_scenarios call.
NoMerge == [kind |-> "none", label |-> "", key |-> <<>>, scenario |-> <<>>]
MergeRaised(e) == [kind |-> "raise", label |-> e.phase, key |-> e.msg, scenario |-> <<>>]
MergeReturned(S) == [kind |-> "return", label |-> "", key |-> <<>>, scenario |-> <<S>>]

\* What merge_scenarios leaves alone.
mergeFrame == <<supervisorVars, fixtureVars, tokenVars, scenarioVars>>

\* A merge that validates the scenario it has built before returning it.
merge_outcome_validating(scenarios) ==
    LET part(k) == merge_entries(scenarios, MergeSpecs[k])
        failed == FirstFailure(Len(MergeSpecs), part)
        merged == [users |-> part(1).val, organizations |-> part(2).val,
                   repositories |-> part(3).val, branches |-> part(4).val,
                   issues |-> part(5).val, pull_requests |-> part(6).val,
                   tokens |-> <<>>, apps |-> part(7).val,
                   app_installations |-> part(8).val, default_token |-> None]
    IN  IF scenarios = <<>> THEN MergeReturned(EmptyScenario)
        ELSE IF failed # 0 THEN MergeRaised(part(failed))
        ELSE IF ~build_indexes(merged).ok THEN MergeRaised(build_indexes(merged))
        ELSE MergeReturned(merged)

\* The body of merge_scenarios: what it returns or raises for the scenarios
\* it is given.
merge_outcome(scenarios) ==
    LET part(k) == merge_entries(scenarios, MergeSpecs[k])
        failed == FirstFailure(Len(MergeSpecs), part)
    IN  IF scenarios = <<>> THEN MergeReturned(EmptyScenario)
        ELSE IF failed # 0 THEN MergeRaised(part(failed))
        ELSE MergeReturned(
               [users |-> part(1).val, organizations |-> part(2).val,
                repositories |-> part(3).val, branches |-> part(4).val,
                issues |-> part(5).val, pull_requests |-> part(6).val,
                tokens |-> <<>>, apps |-> part(7).val,
                app_installations |-> part(8).val, default_token |-> None])

\* merge_scenarios
merge_scenarios ==
    /\ m_out.kind = "none"
    /\ m_out' = merge_outcome(fragments)
    /\ UNCHANGED <<fragments, mergeFrame>>

\* The fragments tried: pairs that agree on a key, pairs that define a key
\* differently, and one that lists an entity twice.
MergeFragments ==
    { EmptyScenario,
      [EmptyScenario EXCEPT !.users = <<User("alice", <<>>)>>,
                            !.tokens = <<AccessToken("t1", "alice", <<>>, <<>>, None)>>,
                            !.default_token = Some("t1")],
      [EmptyScenario EXCEPT !.users = <<User("alice", <<"acme">>)>>,
                            !.organizations = <<Organization("acme")>>],
      [EmptyScenario EXCEPT !.users = <<User("alice", <<>>)>>,
                            !.repositories = <<Repository("alice", "rocket", FALSE, None)>>,
                            !.branches = <<Branch("alice", "rocket", "main", Some("abc"), None)>>],
      [EmptyScenario EXCEPT !.repositories = <<Repository("alice", "rocket", TRUE, None)>>,
                            !.branches = <<Branch("alice", "rocket", "main", Some("def"), None)>>],
      [EmptyScenario EXCEPT !.branches = <<Branch("alice", "rocket", "main", Some("abc"), None)>>,
                            !.issues = <<Issue("alice", "rocket", IntV(1), "open")>>,
                            !.pull_requests = <<PullRequest("alice", "rocket", IntV(1), "open", None, None)>>],
      [EmptyScenario EXCEPT !.issues = <<Issue("alice", "rocket", IntV(2), "open"),
                                         Issue("alice", "rocket", IntV(1), "closed")>>,
                            !.pull_requests = <<PullRequest("alice", "rocket", IntV(1), "closed", None, None)>>],
      [EmptyScenario EXCEPT !.apps = <<GitHubApp("app1", None, None)>>,
                            !.app_installations =
                                <<AppInstallation(IntV(1), "app1", "alice", <<>>, <<>>, None)>>],
      [EmptyScenario EXCEPT !.apps = <<GitHubApp("app1", None, Some("acme"))>>,
                            !.app_installations =
                                <<AppInstallation(IntV(1), "app1", "acme", <<>>, <<>>, None)>>],
      [EmptyScenario EXCEPT !.users = <<User("bob", <<>>), User("bob", <<>>)>>,
                            !.organizations = <<Organization("acme")>>] }

FragmentLists == UNION { [1..n -> MergeFragments] : n \in 0..MaxFragments }

InitMerge ==
    /\ SupervisorIdle
    /\ FixtureIdle
    /\ TokenIdle
    /\ ScenarioIdle
    /\ fragments \in FragmentLists
    /\ m_out = NoMerge

NextMerge == merge_scenarios

SpecMerge == InitMerge /\ [][NextMerge]_vars

-----------------------------------------------------------------------------
(* Properties of the handshake (checked under Spec)                        *)

\* A record that decides the handshake: a JSON object whose event is
\* "listening" or "error".
Decisive(l) == l.valid /\ l.obj /\ l.event \in {"listening", "error"}

Last(seq) == seq[Len(seq)]

\* No record consumed before the last one was decisive.
NoDecisiveBefore == \A i \in 1..(Len(output_lines) - 1) : ~Decisive(output_lines[i])

Ops(log) == { log[i].op : i \in 1..Len(log) }

\* terminate has been called on the child and, if the child is still
\* running, kill has been called as well.
HasBeenStopped ==
    /\ "terminate" \in Ops(proclog)
    /\ procState = "running" => "kill" \in Ops(proclog)

FirstDecisive(w) ==
    IF \E i \in 1..Len(w) : Decisive(w[i])
    THEN CHOOSE i \in 1..Len(w) : Decisive(w[i]) /\ \A j \in 1..(i - 1) : ~Decisive(w[j])
    ELSE 0

\* C1: once the controller has consumed, before the deadline and before any
\* other listening or error record, a listening record whose port is an
\* integer p, the call is on its way out through the finally clause with p
\* as its return value, it returns exactly p, and no wait, terminate or kill
\* has been issued on the child and no signal delivered to it.
C1_ListeningReturnsPort ==
    ( /\ output_lines # <<>>
      /\ ~pulledLate
      /\ NoDecisiveBefore
      /\ Decisive(Last(output_lines))
      /\ Last(output_lines).event = "listening"
      /\ Last(output_lines).port.t = "int" )
    => /\ pc \in {"join", "done"}
       /\ pc = "join" => pending = Returned(Last(output_lines).port.n)
       /\ pc = "done" => result = Returned(Last(output_lines).port.n)
       /\ proclog = <<>>
       /\ signals = {}

\* C1 witness: the call returned 4242 after an irrelevant line and a
\* listening record with port 4242, and the child is still running.
C1_Witness ==
    /\ pc = "done"
    /\ result = Returned(4242)
    /\ Len(output_lines) = 2
    /\ ~Decisive(output_lines[1])
    /\ output_lines[2] = ObjLine("listening", IntV(4242), <<>>)
    /\ ~pulledLate
    /\ procState = "running"

\* C2: when the first decisive record consumed is an error event, no port
\* is ever returned, the call raises GitHubSimProcessError whose message
\* carries the record's message, and from the moment the error is raised
\* the child has been terminated or killed.
C2_ErrorEventRaises ==
    ( /\ output_lines # <<>>
      /\ NoDecisiveBefore
      /\ Decisive(Last(output_lines))
      /\ Last(output_lines).event = "error" )
    => /\ pc \in {"drain", "wait", "kill_wait", "raise", "join", "done"}
       /\ pending.kind # "return"
       /\ result.kind # "return"
       /\ pending.kind = "raise" =>
              /\ pending.exc = "GitHubSimProcessError"
              /\ HasBeenStopped
       /\ pc = "done" =>
              /\ result.kind = "raise"
              /\ result.exc = "GitHubSimProcessError"
              /\ result.msg[1].head = "Simulator error: "
              /\ Last(output_lines).message # <<>> =>
                     result.msg[1].text = Last(output_lines).message
              /\ HasBeenStopped

\* C2 witness: the call raised "Simulator error: boom" for an error record
\* and the child, still running, was sent terminate and kill.
C2_Witness ==
    /\ pc = "done"
    /\ result.kind = "raise"
    /\ result.exc = "GitHubSimProcessError"
    /\ result.msg[1].text = <<"boom">>
    /\ Last(output_lines) = ObjLine("error", AbsentV, <<"boom">>)
    /\ procState = "running"
    /\ Ops(proclog) = {"wait", "terminate", "kill"}

\* The controller left its loop without a decisive record, the deadline
\* having passed: the loop test failed, or a pull at the deadline came back
\* empty with the child gone.
TimedOut == pending.kind = "cleanup" /\ now >= deadline

\* C3 as stated: a call that reports success consumed its listening record
\* before startup_timeout had elapsed.
C3_SuccessOnlyBeforeDeadline ==
    (pc = "done" /\ result.kind = "return") => ~pulledLate

\* C3 amended: once the loop of _wait_for_port has been left on the deadline
\* with no listening or error record consumed, the call never reports
\* success; it ends raising GitHubSimProcessError ("did not report a
\* listening port") with the child terminated or killed.
C3_TimeoutRaises ==
    TimedOut
    => /\ \A i \in 1..Len(output_lines) : ~Decisive(output_lines[i])
       /\ result.kind # "return"
       /\ pc \in {"join", "drain", "wait", "kill_wait", "raise", "done"}
       /\ pc = "done" =>
              /\ result.kind = "raise"
              /\ result.exc = "GitHubSimProcessError"
              /\ result.msg[1].head = "Simulator did not report a listening port."
              /\ HasBeenStopped

\* C3 witness: a child that wrote nothing and never exited; the call raised
\* after the deadline and terminate and kill were sent.
C3_Witness ==
    /\ pc = "done"
    /\ TimedOut
    /\ deadline > 0
    /\ written = <<>>
    /\ procState = "running"
    /\ result.kind = "raise"
    /\ Ops(proclog) = {"wait", "terminate", "kill"}

\* C4 as stated: a consumed listening record whose port is absent or is not
\* an integer never yields a port; the call raises GitHubSimProcessError
\* with the child cleaned up.
C4_NonIntegerPortFails ==
    ( /\ output_lines # <<>>
      /\ Decisive(Last(output_lines))
      /\ Last(output_lines).event = "listening"
      /\ Last(output_lines).port.t # "int" )
    => /\ pending.kind # "return"
       /\ result.kind # "return"
       /\ pc = "done" =>
              /\ result.kind = "raise"
              /\ result.exc = "GitHubSimProcessError"
              /\ HasBeenStopped

\* C5: lines are consumed in the order the child wrote them (the queue
\* holds, in order, the lines read but not yet consumed), no decisive
\* record is ever skipped, and a port returned or an error raised for a
\* record is the outcome of the earliest decisive record the child wrote.
C5_EarliestRecordDecides ==
    /\ Len(output_lines) <= Len(written)
    /\ \A i \in 1..Len(output_lines) : output_lines[i] = written[i]
    /\ \A i \in 1..Len(line_queue) :
          line_queue[i] # <<>> =>
             /\ Len(output_lines) + i <= Len(written)
             /\ line_queue[i] = <<written[Len(output_lines) + i]>>
    /\ \A i \in 1..(Len(output_lines) - 1) : ~Decisive(written[i])
    /\ (pc = "done" /\ result.kind = "return") =>
          LET k == FirstDecisive(written)
          IN  /\ k > 0
              /\ k = Len(output_lines)
              /\ written[k].event = "listening"
              /\ port_of_event(written[k]) = Ok(result.port)
    /\ (pc = "done" /\ result.kind = "raise" /\ cleanup_msg # <<>>) =>
          LET k == FirstDecisive(written)
          IN  /\ k > 0
              /\ k = Len(output_lines)
              /\ result.msg = process_stdout_line(written[k]).msg

\* C5 witness: the child wrote a listening record and then an error record;
\* the call returned the port of the first.
C5_Witness ==
    /\ pc = "done"
    /\ written = <<ObjLine("listening", IntV(4242), <<>>),
                   ObjLine("error", AbsentV, <<"boom">>)>>
    /\ result = Returned(4242)

-----------------------------------------------------------------------------
(* Properties of stop_sim_process (checked under SpecStop)                 *)

\* C6: on a running process the first call made is terminate; the wait
\* that follows it is given the caller's timeout; kill is called only as the
\* third call and exactly when that wait raised TimeoutExpired (the child
\* had not exited); when that wait found the child exited, the call made
\* terminate and one wait and nothing else, and returned.
C6_StopEscalation ==
    /\ proclog # <<>> => proclog[1].op = "terminate"
    /\ Len(proclog) >= 2 =>
          /\ proclog[1].outcome = "ok"
          /\ proclog[2].op = "wait"
          /\ proclog[2].timeout = timeout
    /\ \A i \in 1..Len(proclog) :
          proclog[i].op = "kill" =>
             i = 3 /\ proclog[2].outcome = "TimeoutExpired"
    /\ (Len(proclog) >= 2 /\ proclog[2].outcome = "TimeoutExpired") =>
          \/ pc = "s_kill" /\ Len(proclog) = 2
          \/ Len(proclog) >= 3 /\ proclog[3].op = "kill"
    /\ (Len(proclog) >= 2 /\ proclog[2].outcome = "ok") =>
          /\ Len(proclog) = 2
          /\ pc = "s_done"
          /\ procState = "exited"

\* C6 witness: stop with timeout 0.5 s returned after terminate, a wait of
\* 0.5 s that timed out, kill, and a second wait.
C6_Witness ==
    /\ pc = "s_done"
    /\ stop_arg = <<5>>
    /\ Len(proclog) = 4
    /\ proclog[1] = LogOutcome("terminate", 0, "ok")
    /\ proclog[2] = LogOutcome("wait", 5, "TimeoutExpired")
    /\ proclog[3].op = "kill"
    /\ proclog[4].op = "wait"

\* C7 as stated: when stop_sim_process has returned for a process that was
\* running at the call, the process has exited.
C7_StopLeavesExited ==
    (pc = "s_done" /\ proclog # <<>>) => procState = "exited"

\* C7 amended: when stop_sim_process has returned for a process that was
\* running at the call, the process has exited, unless terminate raised
\* OSError (the call returned at once) or the process was still running
\* when the bounded wait after kill timed out.
C7_StopLeavesExitedUnless ==
    (pc = "s_done" /\ proclog # <<>> /\ procState = "running") =>
        \/ proclog = <<LogOutcome("terminate", 0, "OSError")>>
        \/ /\ Len(proclog) = 4
           /\ proclog[3].op = "kill"
           /\ proclog[4].outcome = "TimeoutExpired"

\* C7 witness: stop returned after the graceful wait timed out and the
\* process died of the kill.
C7_Witness ==
    /\ pc = "s_done"
    /\ Len(proclog) = 4
    /\ proclog[3] = LogOutcome("kill", 0, "ok")
    /\ proclog[4].outcome = "ok"
    /\ procState = "exited"
    /\ returncode = <<0 - 9>>

C9_StopOnExitedIsNoOp ==
    [][ (procState = "exited" /\ calls' # calls) =>
            /\ pc' = "s_done"
            /\ result' = ReturnedNone
            /\ proclog' = <<>>
            /\ procState' = procState
            /\ returncode' = returncode
            /\ signals' = signals ]_vars

\* C9 witness: a second call on a handle that had exited with status 0
\* has returned without calling anything.
C9_Witness ==
    /\ pc = "s_done"
    /\ calls >= 2
    /\ procState = "exited"
    /\ returncode = <<0>>
    /\ proclog = <<>>
    /\ result = ReturnedNone

\* C10: the graceful wait is given exactly the caller's timeout, 5.0 s when
\* the caller gives none; the wait after kill is given a timeout that
\* exceeds neither 1.0 s nor the caller's timeout, and is one of the two.
C10_KillWaitCapped ==
    /\ calls > 0 =>
          timeout = IF stop_arg = <<>> THEN 50 ELSE stop_arg[1]
    /\ Len(proclog) >= 2 => proclog[2].timeout = timeout
    /\ Len(proclog) >= 4 =>
          /\ proclog[4].op = "wait"
          /\ proclog[4].timeout <= 10
          /\ proclog[4].timeout <= timeout
          /\ proclog[4].timeout \in {10, timeout}

\* C10 witness: a call with a timeout of one hour waited one hour for the
\* graceful exit and 1.0 s after kill.
C10_Witness ==
    /\ stop_arg = <<36000>>
    /\ Len(proclog) = 4
    /\ proclog[2].timeout = 36000
    /\ proclog[3].op = "kill"
    /\ proclog[4].timeout = 10

-----------------------------------------------------------------------------
(* Properties of the github_simulator fixture (checked under SpecFixture)  *)

\* C11: stop_sim_process is never called unless start_sim_process has
\* returned a process to the fixture, never more than once for it, and by
\* the time the fixture has finished exactly once for it, whether the test
\* passed, the test failed, or setup raised after start; when start
\* returned no process, stop is never called.
C11_TeardownStopsOnce ==
    /\ calls <= f_started
    /\ (f_proc # <<>>) <=> (f_started = 1)
    /\ f_proc = <<>> => calls = 0
    /\ calls = 1 => f_pc = "f_done"
    /\ f_pc = "f_done" => calls = f_started

\* C11 witness: setup raised after start_sim_process had returned a
\* process, the test body never ran, and the fixture finished having
\* called stop_sim_process once.
C11_Witness ==
    /\ f_pc = "f_done"
    /\ f_started = 1
    /\ f_exc = "RuntimeError"
    /\ f_test = "none"
    /\ calls = 1

-----------------------------------------------------------------------------
(* Properties of the credential resolver (checked under SpecToken)         *)

\* C12: for a pool T of unique token values and an optional default D the
\* resolver gives None when T is empty and D absent, an error when T is
\* empty and D given, D when D is given and in T, an error when D is given
\* and not in T, the single member when T has one member and D is absent,
\* an error when T has two or more members and D is absent; a value it
\* returns is always a member of T.
C12_ResolutionLaw ==
    selected.kind # "none" =>
        LET T == Range(token_values)
            D == default_token
        IN  /\ (T = {} /\ D = <<>>) => selected = ReturnedValue(<<>>)
            /\ (T = {} /\ D # <<>>) => selected.kind = "raise"
            /\ (D # <<>> /\ D[1] \in T) => selected = ReturnedValue(D)
            /\ (D # <<>> /\ D[1] \notin T) => selected.kind = "raise"
            /\ (Cardinality(T) = 1 /\ D = <<>>) =>
                   selected = ReturnedValue(<<token_values[1]>>)
            /\ (Cardinality(T) >= 2 /\ D = <<>>) => selected.kind = "raise"
            /\ selected.kind = "raise" => selected.exc = "ConfigValidationError"
            /\ (selected.kind = "return" /\ selected.value # <<>>) =>
                   selected.value[1] \in T

\* C12 witness: with tokens t1, t2 and default t2 the resolver returned t2.
C12_Witness ==
    /\ token_values = <<"t1", "t2">>
    /\ default_token = <<"t2">>
    /\ selected = ReturnedValue(<<"t2">>)

-----------------------------------------------------------------------------
(* Properties of scenario validation (checked under SpecScenario)          *)

\* What a scenario's own collections define, read off the collections.
OrganizationLogins(S) == { S.organizations[i].login : i \in DOMAIN S.organizations }
OwnerLogins(S) == OrganizationLogins(S) \cup { S.users[i].login : i \in DOMAIN S.users }
RepositoryKeys(S) ==
    { <<S.repositories[i].owner, S.repositories[i].name>> : i \in DOMAIN S.repositories }
AppSlugs(S) == { S.apps[i].app_slug : i \in DOMAIN S.apps }
BranchNames(S, owner, repository) ==
    { S.branches[i].name : i \in { j \in DOMAIN S.branches :
                                      /\ S.branches[j].owner = owner
                                      /\ S.branches[j].repository = repository } }
    \cup { S.repositories[i].default_branch[1].name :
             i \in { j \in DOMAIN S.repositories :
                       /\ S.repositories[j].owner = owner
                       /\ S.repositories[j].name = repository
                       /\ S.repositories[j].default_branch # <<>> } }

\* The references of a scenario that resolve to nothing the scenario defines.
DanglingUserOrganization(S) ==
    \E i \in DOMAIN S.users : \E j \in DOMAIN S.users[i].organizations :
        S.users[i].organizations[j] \notin OrganizationLogins(S)
DanglingRepositoryOwner(S) ==
    \E i \in DOMAIN S.repositories : S.repositories[i].owner \notin OwnerLogins(S)
DanglingBranchRepository(S) ==
    \E i \in DOMAIN S.branches :
        <<S.branches[i].owner, S.branches[i].repository>> \notin RepositoryKeys(S)
DanglingIssueRepository(S) ==
    \E i \in DOMAIN S.issues :
        <<S.issues[i].owner, S.issues[i].repository>> \notin RepositoryKeys(S)
DanglingPullRequestRepository(S) ==
    \E i \in DOMAIN S.pull_requests :
        <<S.pull_requests[i].owner, S.pull_requests[i].repository>> \notin RepositoryKeys(S)
DanglingPullRequestBranch(S) ==
    \E i \in DOMAIN S.pull_requests :
        LET pr == S.pull_requests[i]
        IN  \E ref \in {pr.base_branch, pr.head_branch} :
               ref # <<>> /\ ref[1] \notin BranchNames(S, pr.owner, pr.repository)
DanglingTokenReference(S) ==
    \E i \in DOMAIN S.tokens :
        \/ S.tokens[i].owner \notin OwnerLogins(S)
        \/ \E k \in DOMAIN S.tokens[i].repositories :
              S.tokens[i].repositories[k] \notin RepositoryKeys(S)
DanglingAppOwner(S) ==
    \E i \in DOMAIN S.apps :
        S.apps[i].owner # <<>> /\ S.apps[i].owner[1] \notin OwnerLogins(S)
DanglingInstallationReference(S) ==
    \E i \in DOMAIN S.app_installations :
        LET n == S.app_installations[i]
        IN  \/ n.app_slug \notin AppSlugs(S)
            \/ n.account \notin OwnerLogins(S)
            \/ \E k \in DOMAIN n.repositories : n.repositories[k] \notin RepositoryKeys(S)

HasDanglingReference(S) ==
    \/ DanglingUserOrganization(S)
    \/ DanglingRepositoryOwner(S)
    \/ DanglingBranchRepository(S)
    \/ DanglingIssueRepository(S)
    \/ DanglingPullRequestRepository(S)
    \/ DanglingPullRequestBranch(S)
    \/ DanglingTokenReference(S)
    \/ DanglingAppOwner(S)
    \/ DanglingInstallationReference(S)

Validated == s_call.op = "validate" /\ s_call.include_unsupported

\* C13: referential integrity.  A scenario in which a user's organization, a
\* repository owner, a branch's repository, an issue's or pull request's
\* repository, a pull request's base or head branch, a token's owner or
\* repository scope, an app's owner, or an installation's app slug, account or
\* repository scope resolves to nothing in the scenario's own collections makes
\* validate() raise ConfigValidationError.
C13_ReferentialIntegrity ==
    (Validated /\ HasDanglingReference(scenario)) => s_out.kind = "raise"

\* validate() has raised on a scenario whose only fault is a pull request
\* head branch that names no branch of its repository.
C13_Witness ==
    /\ Validated
    /\ DanglingPullRequestBranch(scenario)
    /\ ~DanglingPullRequestRepository(scenario)
    /\ s_out.kind = "raise"
    /\ s_out.phase = "pull_requests"

\* Some two entries of the sequence have the same identity key.
Repeats(seq, Key(_)) == \E i, j \in DOMAIN seq : i < j /\ Key(seq[i]) = Key(seq[j])

\* The identity keys of the entity collections.
HasDuplicateKey(S) ==
    \/ Repeats(S.organizations, LAMBDA e : e.login)
    \/ Repeats(S.users, LAMBDA e : e.login)
    \/ Repeats(S.repositories, LAMBDA e : <<e.owner, e.name>>)
    \/ Repeats(S.branches, LAMBDA e : <<e.owner, e.repository, e.name>>)
    \/ Repeats(S.issues, LAMBDA e : <<e.owner, e.repository, e.number>>)
    \/ Repeats(S.pull_requests, LAMBDA e : <<e.owner, e.repository, e.number>>)
    \/ Repeats(S.tokens, LAMBDA e : e.value)
    \/ Repeats(S.apps, LAMBDA e : e.app_slug)
    \/ Repeats(S.app_installations, LAMBDA e : e.installation_id)

\* The indexes hold one entry per identity key.
OneEntryPerKey(idx) ==
    /\ ~Repeats(idx.repo_index, LAMBDA e : <<e.owner, e.name>>)
    /\ ~Repeats(idx.branch_index, LAMBDA e : <<e.owner, e.repository, e.name>>)

\* C14: uniqueness.  A duplicate identity key inside any single entity
\* collection (organization login, user login, repository (owner, name),
\* branch (owner, repository, name), issue / pull request (owner, repository,
\* number), token value, app slug, installation id) makes validate() raise, and
\* the indexes of a scenario that validates hold exactly one entry per
\* distinct identity key.
C14_Uniqueness ==
    /\ (Validated /\ HasDuplicateKey(scenario)) => s_out.kind = "raise"
    /\ indexes # <<>> => OneEntryPerKey(indexes[1])

\* C15: default-branch merge.  When a repository's default-branch descriptor
\* and an explicitly listed branch have the same name, validation raises if
\* both give a commit id and the two differ, or both give a protection flag and
\* the two differ; otherwise the merged branch of that name carries, for each
\* of commit id and protection flag, the value of whichever side gives it.
C15_DefaultBranchMerge ==
    \A i \in DOMAIN scenario.repositories : \A j \in DOMAIN scenario.branches :
        LET repo == scenario.repositories[i]
            db == repo.default_branch[1]
            b == scenario.branches[j]
            conflict == \/ db.sha # <<>> /\ b.sha # <<>> /\ db.sha # b.sha
                        \/ /\ db.is_protected # <<>> /\ b.is_protected # <<>>
                           /\ db.is_protected # b.is_protected
        IN  (/\ s_call.op = "validate"
             /\ repo.default_branch # <<>>
             /\ SameBranch(b, repo.owner, repo.name, db.name))
            => IF conflict THEN s_out.kind = "raise"
               ELSE s_out.kind = "return" =>
                      LET merged == indexes[1].branch_index[
                                        Position(indexes[1].branch_index,
                                                 b.owner, b.repository, b.name)]
                      IN  /\ merged.sha = (IF b.sha # <<>> THEN b.sha ELSE db.sha)
                          /\ merged.is_protected = (IF b.is_protected # <<>>
                                                    THEN b.is_protected
                                                    ELSE db.is_protected)

\* The validation phases in the order the claim gives.
PhaseOrder ==
    << "organizations", "users", "repositories", "tokens", "apps",
       "app_installations", "default_token", "branches", "issues", "pull_requests" >>

\* The branches a scenario lists, then the default branches of its repositories.
ListedBranches(S) ==
    S.branches \o
    [i \in 1..Len(S.repositories) |->
        LET r == S.repositories[i]
        IN  IF r.default_branch = <<>> THEN Branch(r.owner, r.name, "", <<>>, <<>>)
            ELSE to_branch(r.default_branch[1], r.owner, r.name)]

\* The phase taken alone, on what the scenario's collections define, finds a
\* violation.
PhaseViolated(S, phase) ==
    LET users == { S.users[i].login : i \in DOMAIN S.users }
        orgs == OrganizationLogins(S)
    IN  CASE phase = "organizations" -> ~validate_organizations(S).ok
          [] phase = "users" -> ~validate_users(S, orgs).ok
          [] phase = "repositories" -> ~validate_repositories(S, users, orgs).ok
          [] phase = "tokens" -> ~validate_tokens(S, users, orgs, S.repositories).ok
          [] phase = "apps" -> ~validate_apps(S, users, orgs).ok
          [] phase = "app_installations" ->
                ~validate_app_installations(S, AppSlugs(S), users, orgs, S.repositories).ok
          [] phase = "default_token" -> ~validate_default_token(S).ok
          [] phase = "branches" -> ~validate_branches(S, S.repositories).ok
          [] phase = "issues" -> ~validate_issues(S, S.repositories).ok
          [] phase = "pull_requests" ->
                ~validate_pull_requests(S, S.repositories, ListedBranches(S)).ok

\* The phases a validate call runs, and those of them that find a violation.
PhasesRun == 1..(IF s_call.include_unsupported THEN 10 ELSE 8)
ViolatedPhases == { k \in PhasesRun : PhaseViolated(scenario, PhaseOrder[k]) }

\* C16: fixed validation order.  The one error validate() raises describes a
\* violation of the earliest violated phase in the order organizations, users,
\* repositories, tokens, apps, app installations, default token, branches,
\* issues, pull requests; violations of later phases are not reported, and a
\* scenario with no violated phase validates.
C16_FirstPhaseReported ==
    s_call.op = "validate" =>
        IF ViolatedPhases = {} THEN s_out.kind = "return"
        ELSE /\ s_out.kind = "raise"
             /\ \E k \in ViolatedPhases :
                   /\ \A j \in ViolatedPhases : k <= j
                   /\ s_out.phase = PhaseOrder[k]

\* validate() has raised on a scenario with violations in two phases, one of
\* them after the tokens phase that is reported.
C16_Witness ==
    /\ Validated
    /\ Cardinality(ViolatedPhases) >= 2
    /\ s_out.kind = "raise"
    /\ s_out.phase = "tokens"

\* C17: credential pool uniqueness.  In a scenario that passes validation the
\* values of the standalone tokens together with the access tokens of the app
\* installations hold no duplicate: not between two standalone tokens, not
\* between a standalone token and an installation token, not between two
\* installation tokens.
C17_PoolUnique ==
    s_out.kind = "return" =>
        LET standalone == [i \in DOMAIN scenario.tokens |-> scenario.tokens[i].value]
            embedded == InstallationTokens(scenario.app_installations,
                                           Len(scenario.app_installations))
        IN  ~Repeats(standalone \o embedded, LAMBDA v : v)

\* validate() has returned on a scenario that holds a standalone token and an
\* installation with an access token.
C17_Witness ==
    /\ Validated
    /\ s_out.kind = "return"
    /\ scenario.tokens # <<>>
    /\ \E i \in DOMAIN scenario.app_installations :
          scenario.app_installations[i].access_token # <<>>

\* validate(include_unsupported) raises on the scenario: one of the phases it
\* runs finds a violation.
ValidateRaises(S, include_unsupported) ==
    \E k \in 1..(IF include_unsupported THEN 10 ELSE 8) : PhaseViolated(S, PhaseOrder[k])

Serialized == s_call.op = "to_simulator_config"

\* C18 as stated: the serializer validates first; for both values of
\* include_unsupported, whenever validate() raises for a scenario,
\* to_simulator_config raises as well instead of returning a configuration.
C18_SerializerFullyValidates ==
    (Serialized /\ ValidateRaises(scenario, TRUE)) => s_out.kind = "raise"

\* C18, amended: to_simulator_config(include_unsupported = b) returns a
\* configuration exactly when validate(include_unsupported = b) does not
\* raise, and raises otherwise; with b false the issues and pull requests are
\* not validated.
C18_SerializerValidatesAsAsked ==
    Serialized =>
        IF ValidateRaises(scenario, s_call.include_unsupported)
        THEN s_out.kind = "raise" /\ s_out.config = <<>>
        ELSE s_out.kind = "return" /\ s_out.config # <<>>

\* to_simulator_config() has returned a configuration for a scenario on which
\* validate() raises.
C18_Witness ==
    /\ Serialized
    /\ ~s_call.include_unsupported
    /\ ValidateRaises(scenario, TRUE)
    /\ s_out.kind = "return"
    /\ s_out.config # <<>>

\* The keys a simulator configuration may hold, and the keys of its entries.
BaseConfigKeys == {"users", "organizations", "repositories", "branches", "blobs"}
UnsupportedConfigKeys == {"issues", "pull_requests"}
EntryKeys ==
    [users |-> {"login", "organizations", "name", "bio", "email", "id"},
     organizations |-> {"login", "name", "description", "email", "id"},
     repositories |-> {"owner", "name", "private", "description", "id", "default_branch"},
     branches |-> {"owner", "repository", "name", "sha", "protected"},
     blobs |-> {},
     issues |-> {"owner", "repository", "number", "title", "state", "body", "user"},
     pull_requests |-> {"owner", "repository", "number", "title", "state", "body",
                        "user", "base", "head", "draft"}]

\* C19: serialization exclusion.  Whatever tokens, apps, installations and
\* default token a valid scenario holds, the top-level keys of the result of
\* to_simulator_config are exactly users, organizations, repositories,
\* branches and blobs (blobs empty) when include_unsupported is false, plus
\* exactly issues and pull_requests when it is true, and the entries hold only
\* the keys of their own entity: no token, visibility-scope, app or
\* installation data appears in either mode.
C19_SerializationExclusion ==
    (Serialized /\ s_out.kind = "return") =>
        LET config == s_out.config[1]
        IN  /\ DOMAIN config = BaseConfigKeys
                    \cup (IF s_call.include_unsupported THEN UnsupportedConfigKeys ELSE {})
            /\ config.blobs = <<>>
            /\ \A k \in DOMAIN config : \A i \in DOMAIN config[k] :
                  DOMAIN config[k][i] \subseteq EntryKeys[k]

\* to_simulator_config has returned, in this mode with issues and pull
\* requests, for a scenario holding tokens, an app, an installation with an
\* access token and a default token.
C19_Witness ==
    /\ Serialized
    /\ s_call.include_unsupported
    /\ s_out.kind = "return"
    /\ scenario.tokens # <<>>
    /\ scenario.apps # <<>>
    /\ scenario.default_token # <<>>
    /\ \E i \in DOMAIN scenario.app_installations :
          scenario.app_installations[i].access_token # <<>>

-----------------------------------------------------------------------------
(* Properties of the scenario composer (checked under SpecMerge)           *)

\* The entity collections of a scenario, the kind each holds and the
\* identity key of an entity.
EntityKinds ==
    [users |-> "user", organizations |-> "organization", repositories |-> "repository",
     branches |-> "branch", issues |-> "issue", pull_requests |-> "pull request",
     tokens |-> "token", apps |-> "app", app_installations |-> "app installation"]

IdentityKey(c, e) ==
    CASE c \in {"users", "organizations"} -> <<e.login>>
      [] c = "repositories" -> <<e.owner, e.name>>
      [] c = "branches" -> <<e.owner, e.repository, e.name>>
      [] c \in {"issues", "pull_requests"} -> <<e.owner, e.repository, e.number>>
      [] c = "tokens" -> <<e.value>>
      [] c = "apps" -> <<e.app_slug>>
      [] c = "app_installations" -> <<e.installation_id>>

\* The entities of collection c in the fragments, left to right.
Occurrences(c) == Entries(fragments, Len(fragments), c)

\* The positions of the first occurrence of each identity key.
FirstPositions(c) ==
    LET items == Occurrences(c)
    IN  { i \in DOMAIN items :
            \A j \in 1..(i - 1) : IdentityKey(c, items[j]) # IdentityKey(c, items[i]) }

\* The first occurrences, in order.
RECURSIVE FirstOccurrences(_, _)
FirstOccurrences(c, n) ==
    IF n = 0 THEN <<>>
    ELSE FirstOccurrences(c, n - 1)
            \o (IF n \in FirstPositions(c) THEN <<Occurrences(c)[n]>> ELSE <<>>)

\* The positions of the later occurrences whose value differs from an
\* earlier one of the same key.
ConflictPositions(c) ==
    LET items == Occurrences(c)
    IN  { i \in DOMAIN items :
            \E j \in 1..(i - 1) : /\ IdentityKey(c, items[j]) = IdentityKey(c, items[i])
                                  /\ items[j] # items[i] }

Conflicted == { c \in DOMAIN EntityKinds : ConflictPositions(c) # {} }

\* C20: composer merge rule.  merge_scenarios goes through the fragments left
\* to right and, for each entity collection, keeps the first occurrence of
\* every identity key, treats a later occurrence with an equal value as a
\* no-op, and raises ConfigValidationError naming the entity kind and the key
\* as soon as a later occurrence has a different value for the same key; with
\* no fragments it returns an empty scenario.
C20_MergeRule ==
    m_out.kind \in {"return", "raise"} =>
        IF fragments = <<>> THEN m_out = MergeReturned(EmptyScenario)
        ELSE IF Conflicted = {}
        THEN /\ m_out.kind = "return"
             /\ \A c \in DOMAIN EntityKinds :
                   m_out.scenario[1][c] = FirstOccurrences(c, Len(Occurrences(c)))
        ELSE /\ m_out.kind = "raise"
             /\ \E c \in Conflicted :
                   /\ m_out.label = EntityKinds[c]
                   /\ \E i \in ConflictPositions(c) :
                         /\ \A j \in ConflictPositions(c) : i <= j
                         /\ m_out.key = IdentityKey(c, Occurrences(c)[i])

\* The merge rule over the collections other than the tokens.
MergeRuleButTokens ==
    m_out.kind \in {"return", "raise"} =>
        IF fragments = <<>> THEN m_out = MergeReturned(EmptyScenario)
        ELSE IF Conflicted \ {"tokens"} = {}
        THEN /\ m_out.kind = "return"
             /\ \A c \in DOMAIN EntityKinds \ {"tokens"} :
                   m_out.scenario[1][c] = FirstOccurrences(c, Len(Occurrences(c)))
        ELSE /\ m_out.kind = "raise"
             /\ \E c \in Conflicted \ {"tokens"} :
                   /\ m_out.label = EntityKinds[c]
                   /\ \E i \in ConflictPositions(c) :
                         /\ \A j \in ConflictPositions(c) : i <= j
                         /\ m_out.key = IdentityKey(c, Occurrences(c)[i])

\* A scenario that validate() accepts.
ValidScenario(S) == ~ValidateRaises(S, TRUE)

\* C21: composer idempotence.  For a single validated scenario S,
\* merge_scenarios(S) returns a scenario equal to S, every collection and the
\* default token included; and merge_scenarios(S, S) returns the same entity
\* sets as merge_scenarios(S).
C21_ComposerIdempotence ==
    (m_out.kind # "none" /\ fragments # <<>> /\ ValidScenario(fragments[1])) =>
        /\ Len(fragments) = 1 => m_out = MergeReturned(fragments[1])
        /\ (Len(fragments) = 2 /\ fragments[2] = fragments[1]) =>
              LET once == merge_outcome(<<fragments[1]>>)
              IN  /\ m_out.kind = "return"
                  /\ once.kind = "return"
                  /\ \A c \in DOMAIN EntityKinds :
                        Range(m_out.scenario[1][c]) = Range(once.scenario[1][c])

\* The second half of the idempotence law alone: merging a validated
\* scenario with itself gives the entity sets of merging it once.
SelfMergeCollapses ==
    (m_out.kind # "none" /\ Len(fragments) = 2 /\ fragments[2] = fragments[1]
        /\ ValidScenario(fragments[1])) =>
        LET once == merge_outcome(<<fragments[1]>>)
        IN  /\ m_out.kind = "return"
            /\ once.kind = "return"
            /\ \A c \in DOMAIN EntityKinds :
                  Range(m_out.scenario[1][c]) = Range(once.scenario[1][c])

\* A line the handshake has no use for: not JSON, JSON that is not an
\* object, or an object whose event is neither "listening" nor "error".
Irrelevant(l) == ~l.valid \/ ~l.obj \/ l.event \notin {"listening", "error"}

\* The lines consumed so far with the irrelevant ones left out.
RelevantLines == SelectSeq(output_lines, LAMBDA l : ~Irrelevant(l))

\* C22: irrelevant output is ignored.  While every line consumed so far is
\* irrelevant the controller is still waiting, with nothing decided and no
\* call made on the child, unless the deadline or the end of the child has
\* taken it out of the loop; and the outcome of the call is the one the
\* remaining lines decide: a port comes from the only relevant line consumed,
\* an error raised for a record carries that line's message, and with no
\* relevant line consumed the call can only fail for want of a port.
C22_IrrelevantIgnored ==
    /\ RelevantLines = <<>> =>
          /\ pending.kind # "return"
          /\ pending.kind = "raise" =>
                /\ pending.exc = "GitHubSimProcessError"
                /\ pending.msg[1].head = "Simulator did not report a listening port."
          /\ cleanup_msg = <<>>
          /\ pc \in {"loop", "get"} => (pending = NoResult /\ proclog = <<>> /\ signals = {})
          /\ pending.kind = "cleanup" => (now >= deadline \/ poll # <<>>)
          /\ result.kind # "return"
          /\ (result.kind = "raise" /\ procState # "none") =>
                /\ result.exc = "GitHubSimProcessError"
                /\ result.msg[1].head = "Simulator did not report a listening port."
    /\ Len(RelevantLines) <= 1
    /\ RelevantLines # <<>> =>
          /\ RelevantLines[1] = Last(output_lines)
          /\ pc \notin {"loop", "get"}
          /\ LET r == process_stdout_line(RelevantLines[1])
             IN  /\ r.do = "port" => pending = Returned(r.port)
                 /\ r.do = "cleanup" => cleanup_msg = r.msg
                 /\ (pc = "done" /\ r.do = "port") => result = Returned(r.port)
                 /\ (pc = "done" /\ r.do = "cleanup") => result = ProcessError(r.msg[1])

\* The call returned a port after consuming JSON that is not an object.
C22_Witness ==
    /\ pc = "done"
    /\ output_lines = <<ScalarLine, ObjLine("listening", StrV(<<"8", "0", "8", "0">>), <<>>)>>
    /\ result = Returned(8080)

\* The controller is waiting again after a line that is not JSON and an
\* object of another event.
C22_WitnessWaiting ==
    /\ pc = "loop"
    /\ output_lines = <<GarbageLine, ObjLine("ready", IntV(8080), <<"boom">>)>>
    /\ now < deadline

\* The child has exited by itself, its output stream at its end, having
\* written no listening or error record, and the start call is over.
EarlyExit ==
    /\ pc = "done"
    /\ procState = "exited"
    /\ returncode[1] \in ExitStatuses
    /\ \A i \in 1..Len(written) : ~Decisive(written[i])

\* The call raised GitHubSimProcessError for want of a port, its message
\* carrying the exit code and the lines consumed so far.
RaisedNoPort ==
    /\ result.kind = "raise"
    /\ result.exc = "GitHubSimProcessError"
    /\ result.msg[1].head = "Simulator did not report a listening port."
    /\ result.msg[1].exit_code = returncode
    /\ result.msg[1].output = output_lines

\* C23 as stated: after an early exit without a record the call fails at the
\* startup deadline, raising GitHubSimProcessError with the exit code and
\* the lines consumed so far, and returns no port.
C23_EarlyExitFailsAtDeadline ==
    EarlyExit => (RaisedNoPort /\ now >= deadline)

\* C23, amended: after an early exit without a record the call returns no
\* port and raises GitHubSimProcessError with the exit code and the lines
\* consumed so far, no later than the startup deadline: at the deadline, or
\* before it, as soon as the controller has consumed every line written and
\* pulled the end-of-stream marker with the child exited.
C23_EarlyExitRaises ==
    EarlyExit =>
        /\ RaisedNoPort
        /\ now < deadline =>
              /\ reader = "finished"
              /\ output_lines = written
              /\ line_queue = <<>>

\* The call raised before the deadline for a child that wrote an irrelevant
\* line and exited.
C23_Witness ==
    /\ EarlyExit
    /\ RaisedNoPort
    /\ now < deadline
    /\ written = <<GarbageLine>>
    /\ output_lines = <<GarbageLine>>
    /\ returncode = <<1>>

\* C24: reader lifetime.  Once a start call that started a reader thread has
\* returned a port or raised, that reader thread has finished.
C24_ReaderFinishedOnCompletion ==
    (pc = "done" /\ reader # "unstarted") => reader = "finished"

\* The join of the finally clause has been made whenever a call that
\* started a reader thread is over: the reader was waited for, for a
\* bounded time.
ReaderJoinedOnCompletion ==
    (pc = "done" /\ reader # "unstarted") => joined

\* The calls the cleanup of a failed start has made on the child: a bounded
\* wait, terminate, a bounded wait, and, when the child had not exited by
\* then, kill and a last bounded wait.
CleanupCalls ==
    <<LogCall("wait", DRAIN_WAIT_TIMEOUT), LogCall("terminate", 0),
      LogCall("wait", STOP_PROCESS_TIMEOUT)>>

KillCalls == <<LogCall("kill", 0), LogCall("wait", STOP_PROCESS_TIMEOUT)>>

CleanedUp ==
    \/ proclog = CleanupCalls /\ procState = "exited"
    \/ proclog = CleanupCalls \o KillCalls

\* An exception of the start call is in flight or has left it, the child
\* having been spawned.
FailedAfterSpawn ==
    /\ procState # "none"
    /\ pending.kind = "raise" \/ result.kind = "raise"

\* C25: cleanup precedes the error.  Whenever a start call fails after the
\* child was spawned, the exception it raises is GitHubSimProcessError and,
\* from the moment it is raised, the supervisor has waited (bounded) for the
\* child, called terminate, waited again and, the child being still alive,
\* called kill; no failure of these steps takes the place of that error.
C25_CleanupPrecedesError ==
    FailedAfterSpawn =>
        /\ pending.kind = "raise" => pending.exc = "GitHubSimProcessError"
        /\ result.kind = "raise" => result.exc = "GitHubSimProcessError"
        /\ CleanedUp

\* The same for the failures the handshake reports itself: a
\* GitHubSimProcessError is only ever raised with the cleanup made.
CleanupPrecedesProcessError ==
    ( /\ FailedAfterSpawn
      /\ pending.kind = "raise" => pending.exc = "GitHubSimProcessError"
      /\ result.kind = "raise" => result.exc = "GitHubSimProcessError" )
    => CleanedUp

C30_FailureBeforeSpawn ==
    [][ \A eo, se, wo, bf, so \in BOOLEAN, t \in StartupTimeouts :
          ( /\ start_sim_process(eo, se, wo, bf, so, t)
            /\ ~eo \/ ~se \/ ~bf )
          => /\ pc' = "done"
             /\ result'.kind = "raise"
             /\ result'.exc = "GitHubSimProcessError"
             /\ procState' = "none"
             /\ reader' = "unstarted"
             /\ proclog' = <<>>
             /\ ~se => ~config_file'
             /\ ~eo => result'.msg[1].head = "Simulator entry point not found: "
             /\ (eo /\ ~se) =>
                   result'.msg[1].head = "Failed to serialize simulator configuration to JSON"
             /\ (eo /\ se /\ wo /\ ~bf) =>
                   result'.msg[1].head = "Bun executable not found: " ]_vars

\* A start call has raised for a configuration that cannot be serialized:
\* no file, no child.
C30_Witness ==
    /\ pc = "done"
    /\ result = ProcessError(PlainMsg("Failed to serialize simulator configuration to JSON"))
    /\ ~config_file
    /\ procState = "none"
    /\ reader = "unstarted"

\* C27 as stated: validate-once memoization.  No call changes the scenario's
\* collections or default token; the memo slot changes only from empty to
\* the indexes built from the scenario and is never changed once filled; and
\* a call that raises on an empty slot leaves it empty.
C27_ValidateOnce ==
    [][ /\ scenario' = scenario
        /\ indexes # <<>> => indexes' = indexes
        /\ indexes' # indexes =>
              /\ build_indexes(scenario).ok
              /\ indexes' = <<build_indexes(scenario).val>>
        /\ (indexes = <<>> /\ s_out'.kind = "raise") => indexes' = <<>> ]_vars

\* C27, amended: no call changes the scenario's collections or default
\* token; a filled memo slot is never changed; a call on an empty slot fills
\* it with the built indexes exactly when index building succeeds, also when
\* the call then raises in the issue or pull-request phase or in the token
\* selection; the slot stays empty only when index building itself raises,
\* and the call then raises.
C27_MemoizedOnce ==
    [][ /\ scenario' = scenario
        /\ indexes # <<>> => indexes' = indexes
        /\ indexes = <<>> =>
              IF build_indexes(scenario).ok
              THEN indexes' = <<build_indexes(scenario).val>>
              ELSE indexes' = <<>> /\ s_out'.kind = "raise" ]_vars

\* validate(include_unsupported = True) has raised and the memo slot holds
\* the indexes.
C27_Witness ==
    /\ s_call.op = "validate"
    /\ s_call.include_unsupported
    /\ s_out.kind = "raise"
    /\ indexes = <<build_indexes(scenario).val>>
    /\ build_indexes(scenario).ok

\* The branch declarations of a scenario: its explicit branches and the
\* default-branch descriptors of its repositories.
DeclaredBranches(S) == { b \in Range(ListedBranches(S)) : b.name # "" }

BranchKey(b) == <<b.owner, b.repository, b.name>>

\* The emitted branches hold one entry per declared key, and the entry of a
\* key carries every commit id and protection flag a declaration in decl
\* gives for it.
MergedBranchList(emitted, decl) ==
    /\ \A i, j \in DOMAIN emitted : BranchKey(emitted[i]) = BranchKey(emitted[j]) => i = j
    /\ { BranchKey(emitted[i]) : i \in DOMAIN emitted } = { BranchKey(b) : b \in decl }
    /\ \A i \in DOMAIN emitted : \A b \in decl :
          BranchKey(b) = BranchKey(emitted[i]) =>
             /\ b.sha # <<>> =>
                   ("sha" \in DOMAIN emitted[i] /\ emitted[i].sha = b.sha[1])
             /\ b.is_protected # <<>> =>
                   /\ "protected" \in DOMAIN emitted[i]
                   /\ emitted[i].protected = b.is_protected[1]

\* C28: merged branch list.  The branches of a configuration returned by
\* to_simulator_config hold exactly one entry for each distinct
\* (owner, repository, name) declared as an explicit branch or as a
\* repository's default branch, and that entry carries every commit id and
\* protection flag given by any declaration of that branch.
C28_MergedBranchList ==
    (Serialized /\ s_out.kind = "return") =>
        MergedBranchList(s_out.config[1].branches, DeclaredBranches(scenario))

\* The same for the scenarios whose explicit branches have distinct keys.
MergedBranchListOfDistinct ==
    ( /\ Serialized
      /\ s_out.kind = "return"
      /\ \A i, j \in DOMAIN scenario.branches :
            BranchKey(scenario.branches[i]) = BranchKey(scenario.branches[j]) => i = j )
    => MergedBranchList(s_out.config[1].branches, DeclaredBranches(scenario))

\* to_simulator_config has returned for a scenario whose repository gives a
\* default branch that is also listed explicitly, once.
MergedBranchListCase ==
    /\ Serialized
    /\ s_out.kind = "return"
    /\ Len(scenario.branches) = 1
    /\ \E i \in DOMAIN scenario.repositories :
          /\ scenario.repositories[i].default_branch # <<>>
          /\ scenario.repositories[i].default_branch[1].name = scenario.branches[1].name
          /\ scenario.repositories[i].default_branch[1].sha # scenario.branches[1].sha

\* C29: the composer does not validate.  A merge_scenarios call leaves the
\* fragments as they were; it raises only when some collection has an
\* identity-key collision with differing values, the error naming such a
\* collection; without a collision it returns the merged scenario, whether or
\* not validate() accepts that scenario.
C29_ComposerDoesNotValidate ==
    [][ /\ fragments' = fragments
        /\ m_out'.kind = "raise" =>
              \E c \in Conflicted : m_out'.label = EntityKinds[c]
        /\ Conflicted = {} => m_out'.kind = "return" ]_vars

\* merge_scenarios has returned a scenario that validate() rejects: a
\* repository whose owner no fragment defines.
C29_Witness ==
    /\ m_out.kind = "return"
    /\ Len(fragments) = 2
    /\ Conflicted = {}
    /\ DanglingRepositoryOwner(m_out.scenario[1])
    /\ ~build_indexes(m_out.scenario[1]).ok

====
